---- MODULE Spec2Model ----
(***************************************************************************)
(* A model of operations of the KerasNLP / KerasHub model zoo:             *)
(*   - DisentangledSelfAttention (DeBERTa): relative-position bucketing,   *)
(*     the clipped gather indices and the output shape of call;            *)
(*   - CIoULoss.call: the input-shape validation;                          *)
(*   - GreedySampler.sample: the decoding loop;                            *)
(*   - BartSeq2SeqLMPreprocessor.call: the label shift and the lengths;    *)
(*   - Task.from_preset and Preprocessor.from_preset;                      *)
(*   - Task: construction, the preprocessor setter, the config round trip; *)
(*   - XLMRobertaBase / XLMRobertaLarge: the pretrained arguments;         *)
(*   - Phi3Attention.call: the cache arguments;                            *)
(*   - StableDiffusion3TextToImage: the stages of a generation;            *)
(*   - ImageSegmenter.compile: the "auto" defaults;                        *)
(*   - MaskedLMHead: the constructor and compute_output_shape;             *)
(*   - GPTNeoXPreprocessor: the constructor and call;                      *)
(*   - BartSeq2SeqLMPreprocessor: get_config / from_config round trips;    *)
(*   - DisentangledSelfAttention._compute_attention: the three scores.     *)
(* Each operation has its own specification over the shared variables; the *)
(* variables of the other operations stay at their idle values.            *)
(***************************************************************************)
EXTENDS Integers, Sequences, FiniteSets

VARIABLES
    \* DisentangledSelfAttention: constructor arguments (self.*)
    bucket_size, max_position_embeddings, num_heads, hidden_dim,
    \* DisentangledSelfAttention.call: input shape, intermediate tensors, result
    hidden_states_shape, rel_pos, c2p_pos, p2c_pos, attn_result, attn_pc,
    \* CIoULoss.call: argument shapes, the value compute_ciou returns, result
    y_true_shape, y_pred_shape, ciou, ciou_result, ciou_pc,
    \* GreedySampler.sample: arguments, loop variables, the platform's
    \* handling of an out-of-range tf.gather index, and the inputs of each
    \* token_probability_fn call made so far
    token_probability_fn, num_steps, batch_size, max_length,
    prompt, mask, length, gather_mode, entry_prompt, entry_mask, fn_calls,
    sampler_pc,
    \* BartSeq2SeqLMPreprocessor: the private copies of the constructor
    \* arguments, the lengths handed to BartPreprocessor, the call's
    \* arguments (tokenized) and its outputs
    encoder_sequence_length, decoder_sequence_length,
    packer_encoder_sequence_length, packer_decoder_sequence_length,
    encoder_text, decoder_text, labels_passed,
    bart_x, bart_y, bart_sample_weight, bart_warned, bart_pc,
    \* Task.from_preset / Preprocessor.from_preset: the presets of the task
    \* class, of its preprocessor_cls and of its backbone_cls, the arguments,
    \* the constructions and downloads made so far (in order) and the result
    from_preset_method, task_presets, preprocessor_presets, backbone_presets,
    preset, load_weights, kwargs, from_preset_log, from_preset_result,
    from_preset_pc,
    \* Task (AlbertClassifier, RobertaClassifier): the live instance, the
    \* dict its last get_config() returned, the instance from_config built
    \* from that dict, and whether the last predict preprocessed its input
    task, task_config, restored_task, preprocessing_applied, task_pc,
    \* XLMRobertaBase / XLMRobertaLarge: the variant, the arguments, what
    \* _handle_pretrained_model_arguments returned or raised, the model built
    xlm_roberta_variant, weights, vocabulary_size, trainable,
    xlm_handled, xlm_model, xlm_pc,
    \* Phi3Attention.call: the arguments (hidden_states by its sequence
    \* length) and what the call returned or raised
    hidden_states, attention_mask, cache, cache_update_index, training,
    phi3_result, phi3_pc,
    \* StableDiffusion3TextToImage.generate_step / text_to_image: the
    \* arguments, the locals of the generation, and the calls made to the
    \* encode, denoise and decode functions so far
    sd3_function, sd3_num_steps, classifier_free_guidance_scale, token_ids,
    initial_latents, latents, embeddings, step, sd3_calls, sd3_outputs,
    input_is_scalar, sd3_pc,
    \* ImageSegmenter.compile: the activation attribute of the task, the
    \* arguments, and the arguments that reached keras.Model.compile
    activation, optimizer, loss, metrics, compile_kwargs, compiled,
    compile_pc,
    \* MaskedLMHead: the constructor arguments, the layer built (or the
    \* error raised), the shapes given to compute_output_shape, its result
    head_vocabulary_size, embedding_weights, head, inputs_shape,
    masked_positions_shape, output_shape, head_pc,
    \* GPTNeoXPreprocessor: the constructor arguments, the arguments of the
    \* call, and what the call returned or raised
    neox_tokenizer, neox_sequence_length, add_start_token, add_end_token,
    neox_x, neox_y, neox_sample_weight, neox_call_sequence_length,
    neox_result, neox_pc,
    \* BartSeq2SeqLMPreprocessor config round trips: the constructor
    \* arguments as first passed, the live instance, the decoder text of the
    \* calls, the dict the last get_config() returned, the number of
    \* from_config calls so far and what the last call returned
    seq2seq_args, seq2seq, seq2seq_text, seq2seq_config, seq2seq_round_trips,
    seq2seq_output,
    \* DisentangledSelfAttention._compute_attention: the layer, the outputs
    \* of the query and key layers on hidden_states and on rel_embeddings,
    \* the training argument, the random draw of the attention dropout,
    \* the tensor handed to the masked softmax and the two values returned
    attention, attn_query, attn_key, attn_pos_query, attn_pos_key,
    attn_training, dropout_keep, softmax_input, attention_scores,
    attn_output, scores_pc

attnVars == <<bucket_size, max_position_embeddings, num_heads, hidden_dim,
              hidden_states_shape, rel_pos, c2p_pos, p2c_pos, attn_result,
              attn_pc>>

ciouVars == <<y_true_shape, y_pred_shape, ciou, ciou_result, ciou_pc>>

samplerVars == <<token_probability_fn, num_steps, batch_size, max_length,
                 prompt, mask, length, gather_mode, entry_prompt, entry_mask,
                 fn_calls, sampler_pc>>

bartVars == <<encoder_sequence_length, decoder_sequence_length,
              packer_encoder_sequence_length, packer_decoder_sequence_length,
              encoder_text, decoder_text, labels_passed,
              bart_x, bart_y, bart_sample_weight, bart_warned, bart_pc>>

presetVars == <<from_preset_method, task_presets, preprocessor_presets,
                backbone_presets, preset, load_weights, kwargs,
                from_preset_log, from_preset_result, from_preset_pc>>

taskVars == <<task, task_config, restored_task, preprocessing_applied,
              task_pc>>

xlmVars == <<xlm_roberta_variant, weights, vocabulary_size, trainable,
             xlm_handled, xlm_model, xlm_pc>>

phi3Vars == <<hidden_states, attention_mask, cache, cache_update_index,
              training, phi3_result, phi3_pc>>

sd3Vars == <<sd3_function, sd3_num_steps, classifier_free_guidance_scale,
             token_ids, initial_latents, latents, embeddings, step,
             sd3_calls, sd3_outputs, input_is_scalar, sd3_pc>>

segmenterVars == <<activation, optimizer, loss, metrics, compile_kwargs,
                   compiled, compile_pc>>

headVars == <<head_vocabulary_size, embedding_weights, head, inputs_shape,
              masked_positions_shape, output_shape, head_pc>>

neoxVars == <<neox_tokenizer, neox_sequence_length, add_start_token,
              add_end_token, neox_x, neox_y, neox_sample_weight,
              neox_call_sequence_length, neox_result, neox_pc>>

bartConfigVars == <<seq2seq_args, seq2seq, seq2seq_text, seq2seq_config,
                    seq2seq_round_trips, seq2seq_output>>

scoresVars == <<attention, attn_query, attn_key, attn_pos_query,
                attn_pos_key, attn_training, dropout_keep, softmax_input,
                attention_scores, attn_output, scores_pc>>

vars == <<attnVars, ciouVars, samplerVars, bartVars, presetVars, taskVars,
          xlmVars, phi3Vars, sd3Vars, segmenterVars, headVars, neoxVars,
          bartConfigVars, scoresVars>>

(***************************************************************************)
(* Bounds of the model.                                                    *)
(***************************************************************************)
\* Sequence lengths 1..MaxNumPositions; relative positions reach
\* +-(MaxNumPositions - 1), beyond max_position_embeddings - 1 of every
\* configuration below.
MaxNumPositions == 21
MaxBatch == 2
MaxHeads == 3

\* CIoULoss: tensor ranks 1..MaxRank; compute_ciou values are multiples of
\* 1 / CiouScale in [-1, 1].
MaxRank == 3
CiouScale == 2

\* GreedySampler: prompts of max_length 1..MaxLength.
MaxLength == 3

\* BartSeq2SeqLMPreprocessor: texts of 0..MaxTokens tokens, decoder sequence
\* lengths 1..MaxDecoderLen.
MaxTokens == 3
MaxDecoderLen == 4

\* Preprocessor.from_preset: max_sequence_length of a preset ranges over 1..MaxSequenceLength.
MaxSequenceLength == 3

\* Phi3Attention: query lengths 1..MaxQueryLen, cache lengths 2..MaxCacheLen.
MaxQueryLen == 2
MaxCacheLen == 3

\* Stable Diffusion 3: num_steps ranges over 0..MaxNumSteps.
MaxNumSteps == 3

\* MaskedLMHead: masks_per_sequence ranges over 1..MaxMasks.
MaxMasks == 3

\* GPTNeoXPreprocessor: texts of 0..MaxNeoXTokens tokens, sequence lengths
\* 1..MaxNeoXLength.
MaxNeoXTokens == 2
MaxNeoXLength == 3

\* BartSeq2SeqLMPreprocessor: up to MaxRoundTrips from_config calls in a row.
MaxRoundTrips == 3

\* DisentangledSelfAttention scores: sequences of 1..MaxScorePositions
\* positions.
MaxScorePositions == 4

\* (bucket_size, max_position_embeddings) pairs.  Every pair has
\* bucket_size // 2 >= 2 and max_position_embeddings - 1 > bucket_size // 2,
\* so that the logarithm's base (max_position_embeddings - 1) / mid exceeds 1
\* and the logarithmic range is not empty.
AttnConfigs == {<<4, 4>>, <<4, 5>>, <<5, 6>>, <<6, 7>>, <<8, 20>>}
HiddenDims == {0, 2, 4, 6}

(***************************************************************************)
(* Integer helpers.                                                        *)
(***************************************************************************)
Abs(x) == IF x < 0 THEN -x ELSE x

\* tf.math.sign
Sign(x) == IF x > 0 THEN 1 ELSE IF x < 0 THEN -1 ELSE 0

RECURSIVE Pow(_, _)
Pow(b, e) == IF e = 0 THEN 1 ELSE b * Pow(b, e - 1)

(***************************************************************************)
(* DisentangledSelfAttention._make_log_bucket_position                     *)
(***************************************************************************)
\* mid = self.bucket_size // 2
Mid(bs) == bs \div 2

\* abs_pos = tf.where((rel_pos < mid) & (rel_pos > -mid), mid - 1, |rel_pos|)
AbsPos_PlusOne(r, mid) == IF r < mid /\ r > -mid THEN mid + 1 ELSE Abs(r)
AbsPos_OneSided(r, mid) == IF r < mid THEN mid - 1 ELSE Abs(r)
AbsPos(r, mid) == IF r < mid /\ r > -mid THEN mid - 1 ELSE Abs(r)

\* ceil(ln(a / mid) * (mid - 1) / ln((maxpos - 1) / mid)) in exact real
\* arithmetic, for a >= mid and maxpos - 1 > mid: the least k >= 0 with
\*   (a / mid)^(mid - 1) <= ((maxpos - 1) / mid)^k,
\* i.e.  a^(mid-1) * mid^k <= (maxpos-1)^k * mid^(mid-1).
RECURSIVE CeilLogFrom(_, _, _, _)
CeilLogFrom(k, a, mid, maxpos) ==
    IF Pow(a, mid - 1) * Pow(mid, k) <= Pow(maxpos - 1, k) * Pow(mid, mid - 1)
    THEN k
    ELSE CeilLogFrom(k + 1, a, mid, maxpos)

CeilLogRatio(a, mid, maxpos) == CeilLogFrom(0, a, mid, maxpos)

\* The code evaluates the quotient in float64 as (log(a/mid) * (mid-1)) /
\* log((maxpos-1)/mid).  Where the real quotient is an integer n, the
\* rounded product divided by the logarithm can land one ulp above n, and
\* tf.math.ceil then yields n + 1.  These are the (mid, maxpos, a) with
\* mid <= 5, maxpos <= 39, a <= 59 where IEEE-754 double arithmetic does so
\* (each has a = maxpos - 1, n = mid - 1 = 3); everywhere else in that range
\* the float64 result equals the exact one.
Float64CeilOvershoots(a, mid, maxpos) ==
    <<mid, maxpos, a>> \in {<<4, 6, 5>>, <<4, 20, 19>>, <<4, 25, 24>>, <<4, 27, 26>>}

\* _get_log_pos(abs_pos, mid): val = ceil(numerator / denominator) + mid
GetLogPos_NoMid(a, mid, maxpos) ==
    CeilLogRatio(a, mid, maxpos)
      + (IF Float64CeilOvershoots(a, mid, maxpos) THEN 1 ELSE 0)
GetLogPos(a, mid, maxpos) ==
    CeilLogRatio(a, mid, maxpos)
      + (IF Float64CeilOvershoots(a, mid, maxpos) THEN 1 ELSE 0)
      + mid

\* bucket_pos = tf.where(abs_pos <= mid, rel_pos, log_pos * sign).  The
\* log_pos of an element with abs_pos <= mid is computed by the code and
\* discarded by tf.where; it is not evaluated here.
MakeLogBucketPosition(r, bs, maxpos) ==
    LET mid == Mid(bs)
        abs_pos == AbsPos(r, mid)
    IN  IF abs_pos <= mid
        THEN r
        ELSE GetLogPos(abs_pos, mid, maxpos) * Sign(r)

(***************************************************************************)
(* DisentangledSelfAttention._get_rel_pos                                  *)
(***************************************************************************)
\* rel_pos[i][j] = bucket(query_ids[i] - key_ids[j])
GetRelPos(num_positions, bs, maxpos) ==
    [i \in 0..(num_positions - 1) |->
        [j \in 0..(num_positions - 1) |->
            MakeLogBucketPosition(i - j, bs, maxpos)]]

(***************************************************************************)
(* DisentangledSelfAttention._compute_disentangled_attention: the indices  *)
(***************************************************************************)
\* tf.clip_by_value
ClipByValue_NoUpper(x, lo, hi) == IF x < lo THEN lo ELSE x
ClipByValue(x, lo, hi) == IF x < lo THEN lo ELSE IF x > hi THEN hi ELSE x

\* c2p_pos = clip(rel_pos + rel_attn_span, 0, rel_attn_span * 2 - 1)
C2pPos_HiOffByOne(rp, rel_attn_span) ==
    [i \in DOMAIN rp |-> [j \in DOMAIN rp[i] |->
        ClipByValue(rp[i][j] + rel_attn_span, 0, rel_attn_span * 2)]]
C2pPos(rp, rel_attn_span) ==
    [i \in DOMAIN rp |-> [j \in DOMAIN rp[i] |->
        ClipByValue(rp[i][j] + rel_attn_span, 0, rel_attn_span * 2 - 1)]]

\* p2c_pos = clip(-rel_pos + rel_attn_span, 0, rel_attn_span * 2 - 1)
P2cPos(rp, rel_attn_span) ==
    [i \in DOMAIN rp |-> [j \in DOMAIN rp[i] |->
        ClipByValue(-rp[i][j] + rel_attn_span, 0, rel_attn_span * 2 - 1)]]

(***************************************************************************)
(* DisentangledSelfAttention.__init__ / call: shapes                       *)
(***************************************************************************)
\* self.attn_head_size = hidden_dim // num_heads
AttnHeadSize_NoDiv(hd, nh) == hd
AttnHeadSize(hd, nh) == hd \div nh

\* num_type_attn = 3
NumTypeAttn == 3

\* __init__(num_heads, hidden_dim, ...): hidden_dim // num_heads raises
\* ZeroDivisionError for num_heads = 0, and
\* 1.0 / math.sqrt(float(num_type_attn * attn_head_size)) raises it for
\* attn_head_size = 0, that is for hidden_dim < num_heads.
InitRaises(hd, nh) ==
    IF nh = 0 THEN TRUE ELSE NumTypeAttn * AttnHeadSize(hd, nh) = 0

RECURSIVE NumElements(_)
NumElements(shape) ==
    IF shape = <<>> THEN 1 ELSE Head(shape) * NumElements(Tail(shape))

\* EinsumDense "abc,cde->abde" with output_shape (None, num_heads, head_size)
QkvDenseShape(in_shape, hd, nh) ==
    <<in_shape[1], in_shape[2], nh, AttnHeadSize(hd, nh)>>

\* attention_output = einsum("acbe,aecd->abcd", attention_scores, value):
\* scores (a, c, b, e) and value (a, e, c, d) give (a, b, c, d).
AttentionOutputShape(scores_shape, value_shape) ==
    <<scores_shape[1], scores_shape[3], scores_shape[2], value_shape[4]>>

\* attention_scores = einsum("abcd,afcd->acbf", key, query)
AttentionScoresShape(key_shape, query_shape) ==
    <<key_shape[1], key_shape[3], key_shape[2], query_shape[2]>>

\* tf.reshape(tensor, target): raises unless the element counts agree (a
\* tensor without elements has the count 0 whatever its other axes are).
Reshape(shape, target) ==
    IF NumElements(shape) = NumElements(target)
    THEN [raised |-> "none", shape |-> target]
    ELSE [raised |-> "InvalidArgumentError", shape |-> <<>>]

\* EinsumDense "abc,cd->abd" with output_shape (None, hidden_dim)
OutputDenseShape(in_shape, hd) == <<in_shape[1], in_shape[2], hd>>

\* The result of call(hidden_states, rel_embeddings) for an input of the
\* given shape: the raised error, if any, and the shape returned.
CallResult(in_shape, hd, nh) ==
    LET query == QkvDenseShape(in_shape, hd, nh)
        key == QkvDenseShape(in_shape, hd, nh)
        value == QkvDenseShape(in_shape, hd, nh)
        scores == AttentionScoresShape(key, query)
        attention_output == AttentionOutputShape(scores, value)
        reshaped == Reshape(attention_output,
                            <<attention_output[1], attention_output[2], hd>>)
    IN  IF reshaped.raised # "none"
        THEN reshaped
        ELSE [raised |-> "none", shape |-> OutputDenseShape(reshaped.shape, hd)]

(***************************************************************************)
(* DisentangledSelfAttention: state machine                                *)
(***************************************************************************)
NoTensor == <<>>

InitAttn ==
    /\ \E cfg \in AttnConfigs :
          /\ bucket_size = cfg[1]
          /\ max_position_embeddings = cfg[2]
    /\ num_heads \in 0..MaxHeads
    /\ hidden_dim \in HiddenDims
    /\ \E b \in 0..MaxBatch, s \in 0..MaxNumPositions :
          hidden_states_shape = <<b, s, hidden_dim>>
    /\ rel_pos = NoTensor
    /\ c2p_pos = NoTensor
    /\ p2c_pos = NoTensor
    /\ attn_result = [raised |-> "none", shape |-> <<>>]
    /\ attn_pc = "start"

IdleAttn ==
    /\ bucket_size = 0
    /\ max_position_embeddings = 0
    /\ num_heads = 0
    /\ hidden_dim = 0
    /\ hidden_states_shape = <<>>
    /\ rel_pos = NoTensor
    /\ c2p_pos = NoTensor
    /\ p2c_pos = NoTensor
    /\ attn_result = [raised |-> "none", shape |-> <<>>]
    /\ attn_pc = "idle"

\* DisentangledSelfAttention(num_heads, hidden_dim, max_position_embeddings,
\* bucket_size): the layer, or the ZeroDivisionError of __init__.
ConstructAttention ==
    /\ attn_pc = "start"
    /\ IF InitRaises(hidden_dim, num_heads)
       THEN /\ attn_result' = [raised |-> "ZeroDivisionError", shape |-> <<>>]
            /\ attn_pc' = "init_raised"
       ELSE /\ attn_result' = attn_result
            /\ attn_pc' = "constructed"
    /\ UNCHANGED <<bucket_size, max_position_embeddings, num_heads, hidden_dim,
                   hidden_states_shape, rel_pos, c2p_pos, p2c_pos>>

\* call(hidden_states, rel_embeddings): _compute_attention runs
\* _compute_disentangled_attention (which runs _get_rel_pos and clips the
\* two gather indices) before the reshape that may raise.
Call ==
    /\ attn_pc = "constructed"
    /\ LET num_positions == hidden_states_shape[2]
           rp == GetRelPos(num_positions, bucket_size, max_position_embeddings)
       IN  /\ rel_pos' = rp
           /\ c2p_pos' = C2pPos(rp, bucket_size)
           /\ p2c_pos' = P2cPos(rp, bucket_size)
    /\ attn_result' = CallResult(hidden_states_shape, hidden_dim, num_heads)
    /\ attn_pc' = IF attn_result'.raised = "none" THEN "returned" ELSE "raised"
    /\ UNCHANGED <<bucket_size, max_position_embeddings, num_heads, hidden_dim,
                   hidden_states_shape>>

(***************************************************************************)
(* CIoULoss.call                                                           *)
(***************************************************************************)
\* Sizes a tensor dimension takes in the model.
Dims == {2, 4, 5}

RECURSIVE ShapesOfRank(_)
ShapesOfRank(n) ==
    IF n = 0 THEN {<<>>}
    ELSE {Append(sh, d) : sh \in ShapesOfRank(n - 1), d \in Dims}

\* Tensors of boxes have at least the coordinate axis.
Shapes == UNION {ShapesOfRank(n) : n \in 1..MaxRank}

\* Python's shape[-k]: IndexError when the rank is below k.
HasDim(shape, k) == Len(shape) >= k
DimFromEnd(shape, k) == shape[Len(shape) - k + 1]

\* compute_ciou(y_true, y_pred, bounding_box_format): the value it returns,
\* in units of 1 / CiouScale.
CiouValues == (-CiouScale)..CiouScale
ComputeCiou(c) == c

Raised(kind, check) == [raised |-> kind, check |-> check, value |-> 0]
Returned(v) == [raised |-> "none", check |-> "none", value |-> v]

\* call(y_true, y_pred): the three checks in the order of the code, each
\* shape[-k] raising IndexError on a tensor of lower rank, then 1 - ciou.
CIoULossCall_TrueFirst(yt, yp, c) ==
    IF ~HasDim(yt, 1) THEN Raised("IndexError", "y_true.shape[-1]")
    ELSE IF DimFromEnd(yt, 1) # 4 THEN Raised("ValueError", "y_true.shape[-1]")
    ELSE IF ~HasDim(yp, 1) THEN Raised("IndexError", "y_pred.shape[-1]")
    ELSE IF DimFromEnd(yp, 1) # 4 THEN Raised("ValueError", "y_pred.shape[-1]")
    ELSE IF ~HasDim(yt, 2) THEN Raised("IndexError", "y_true.shape[-2]")
    ELSE IF ~HasDim(yp, 2) THEN Raised("IndexError", "y_pred.shape[-2]")
    ELSE IF DimFromEnd(yt, 2) # DimFromEnd(yp, 2)
         THEN Raised("ValueError", "shape[-2]")
    ELSE Returned(CiouScale - ComputeCiou(c))
CIoULossCall(yt, yp, c) ==
    IF ~HasDim(yp, 1) THEN Raised("IndexError", "y_pred.shape[-1]")
    ELSE IF DimFromEnd(yp, 1) # 4 THEN Raised("ValueError", "y_pred.shape[-1]")
    ELSE IF ~HasDim(yt, 1) THEN Raised("IndexError", "y_true.shape[-1]")
    ELSE IF DimFromEnd(yt, 1) # 4 THEN Raised("ValueError", "y_true.shape[-1]")
    ELSE IF ~HasDim(yt, 2) THEN Raised("IndexError", "y_true.shape[-2]")
    ELSE IF ~HasDim(yp, 2) THEN Raised("IndexError", "y_pred.shape[-2]")
    ELSE IF DimFromEnd(yt, 2) # DimFromEnd(yp, 2)
         THEN Raised("ValueError", "shape[-2]")
    ELSE Returned(CiouScale - ComputeCiou(c))

InitCIoU ==
    /\ y_true_shape \in Shapes
    /\ y_pred_shape \in Shapes
    /\ ciou \in CiouValues
    /\ ciou_result = Returned(0)
    /\ ciou_pc = "ready"

IdleCIoU ==
    /\ y_true_shape = <<>>
    /\ y_pred_shape = <<>>
    /\ ciou = 0
    /\ ciou_result = Returned(0)
    /\ ciou_pc = "idle"

CIoUCall ==
    /\ ciou_pc = "ready"
    /\ ciou_result' = CIoULossCall(y_true_shape, y_pred_shape, ciou)
    /\ ciou_pc' = "done"
    /\ UNCHANGED <<y_true_shape, y_pred_shape, ciou>>

(***************************************************************************)
(* GreedySampler.sample                                                    *)
(***************************************************************************)
BatchSizes == {1, 2}
Vocab == 0..1
PadTokenId == 0

\* token_probability_fn(prompt, mask) -> probs[b][pos][v].  The callers'
\* functions of the model: each scores the next token v after position pos
\* of row b from the current prompt or the current mask.
TokenProbabilityFns == {"repeat", "flip", "row_sum", "mask_count", "uniform"}

RECURSIVE SumUpTo(_, _)
SumUpTo(row, n) == IF n < 0 THEN 0 ELSE row[n] + SumUpTo(row, n - 1)

RowSum(row, len) == SumUpTo(row, len - 1)

RECURSIVE CountTrueUpTo(_, _)
CountTrueUpTo(row, n) ==
    IF n < 0 THEN 0
    ELSE (IF row[n] THEN 1 ELSE 0) + CountTrueUpTo(row, n - 1)

Favoured(fn, p, m, b, pos, len) ==
    CASE fn = "repeat" -> p[b][pos]
      [] fn = "flip" -> (p[b][pos] + 1) % Cardinality(Vocab)
      [] fn = "row_sum" -> RowSum(p[b], len) % Cardinality(Vocab)
      [] fn = "mask_count" -> CountTrueUpTo(m[b], len - 1) % Cardinality(Vocab)
      [] OTHER -> -1

TokenProbability(fn, p, m, bs, len) ==
    [b \in 0..(bs - 1) |-> [pos \in 0..(len - 1) |-> [v \in Vocab |->
        IF v = Favoured(fn, p, m, b, pos, len) THEN 2 ELSE 1]]]

\* tf.argmax(x, axis=-1): an index holding the largest value. Which one of
\* several that hold it is not specified, so every one of them is a value
\* the call may return.
ArgMax(x) == {v \in DOMAIN x : \A w \in DOMAIN x : x[w] <= x[v]}

\* tf.gather(probs, repeat(index, batch_size), axis=1, batch_dims=1)[b] for
\* an index inside the sequence axis.
Gather(probs, b, index) == probs[b][index]

\* The same gather for any index.  An index outside [0, len) is no Python
\* wrap-around: the CPU kernel raises, the GPU kernel stores zeros and XLA
\* clamps the index into range.
GatherModes == {"cpu", "gpu", "xla"}

GatherRaises(index, len, mode) == (index < 0 \/ index >= len) /\ mode = "cpu"

GatherAny(probs, b, index, len, mode) ==
    IF index >= 0 /\ index < len THEN Gather(probs, b, index)
    ELSE IF mode = "gpu" THEN [v \in Vocab |-> 0]
    ELSE Gather(probs, b, IF index < 0 THEN 0 ELSE len - 1)

\* next_token = tf.where(mask[:, length], prompt[:, length], argmax(...)):
\* the values row b of next_token may take.
NextToken(probs, p, m, b, len, max_len, mode) ==
    IF m[b][len]
    THEN {p[b][len]}
    ELSE ArgMax(GatherAny(probs, b, len - 1, max_len, mode))

\* tf.tensor_scatter_nd_update(tensor, [(b, length) for each b], updates)
ScatterColumn(tensor, bs, col, updates) ==
    [b \in 0..(bs - 1) |-> [tensor[b] EXCEPT ![col] = updates[b]]]

\* A prompt row holding n tokens followed by padding, and its mask.
PromptRows(len) ==
    UNION {{[pos \in 0..(len - 1) |-> IF pos < n THEN toks[pos] ELSE PadTokenId] :
               toks \in [0..(len - 1) -> Vocab]} : n \in 0..len}

MaskRows(len) == {[pos \in 0..(len - 1) |-> pos < n] : n \in 0..len}

RowMatchesMask(row, mrow, len) ==
    \A pos \in 0..(len - 1) : ~mrow[pos] => row[pos] = PadTokenId

InitSampler ==
    /\ token_probability_fn \in TokenProbabilityFns
    /\ gather_mode \in GatherModes
    /\ batch_size \in BatchSizes
    /\ max_length \in 1..MaxLength
    /\ num_steps \in 0..max_length
    /\ mask \in [0..(batch_size - 1) -> MaskRows(max_length)]
    /\ prompt \in [0..(batch_size - 1) -> PromptRows(max_length)]
    /\ \A b \in 0..(batch_size - 1) :
          RowMatchesMask(prompt[b], mask[b], max_length)
    /\ entry_prompt = prompt
    /\ entry_mask = mask
    \* length = max_length - num_steps
    /\ length = max_length - num_steps
    /\ fn_calls = <<>>
    /\ sampler_pc = "loop"

IdleSampler ==
    /\ token_probability_fn = "none"
    /\ gather_mode = "none"
    /\ batch_size = 0
    /\ max_length = 0
    /\ num_steps = 0
    /\ mask = <<>>
    /\ prompt = <<>>
    /\ entry_prompt = <<>>
    /\ entry_mask = <<>>
    /\ length = 0
    /\ fn_calls = <<>>
    /\ sampler_pc = "idle"

\* one_step(length, prompt, mask), run while tf.less(length, max_length)
OneStep ==
    /\ sampler_pc = "loop"
    /\ length < max_length
    /\ ~GatherRaises(length - 1, max_length, gather_mode)
    /\ LET probs == TokenProbability(token_probability_fn, prompt, mask,
                                     batch_size, max_length)
       IN  \E next_token \in [0..(batch_size - 1) -> Vocab] :
               /\ \A b \in 0..(batch_size - 1) :
                     next_token[b] \in NextToken(probs, prompt, mask, b,
                                                 length, max_length,
                                                 gather_mode)
               /\ mask' = ScatterColumn(mask, batch_size, length,
                                        [b \in 0..(batch_size - 1) |-> TRUE])
               /\ prompt' = ScatterColumn(prompt, batch_size, length,
                                          next_token)
    /\ fn_calls' = Append(fn_calls,
                          [length |-> length, prompt |-> prompt, mask |-> mask])
    /\ length' = length + 1
    /\ UNCHANGED <<token_probability_fn, num_steps, batch_size, max_length,
                   gather_mode, entry_prompt, entry_mask, sampler_pc>>

\* one_step whose tf.gather raises on the index length - 1 = -1
OneStepRaises ==
    /\ sampler_pc = "loop"
    /\ length < max_length
    /\ GatherRaises(length - 1, max_length, gather_mode)
    /\ fn_calls' = Append(fn_calls,
                          [length |-> length, prompt |-> prompt, mask |-> mask])
    /\ sampler_pc' = "raised"
    /\ UNCHANGED <<token_probability_fn, num_steps, batch_size, max_length,
                   prompt, mask, length, gather_mode, entry_prompt, entry_mask>>

\* the loop condition fails: return prompt
SampleReturn ==
    /\ sampler_pc = "loop"
    /\ ~(length < max_length)
    /\ sampler_pc' = "returned"
    /\ UNCHANGED <<token_probability_fn, num_steps, batch_size, max_length,
                   prompt, mask, length, gather_mode, entry_prompt, entry_mask,
                   fn_calls>>

(***************************************************************************)
(* BartSeq2SeqLMPreprocessor                                               *)
(***************************************************************************)
\* Token ids of the test vocabulary: "<s>" 0, "<pad>" 1, "</s>" 2.
StartTokenId == 0
BartPadTokenId == 1
EndTokenId == 2
DecoderWords == {3, 4}
EncoderWords == {5}
EncoderLens == {2, 3}

SeqsUpTo(words, n) == UNION {[1..k -> words] : k \in 0..n}

Min(a, b) == IF a < b THEN a ELSE b

\* A tensor of token rows: one row when the input is unbatched.
Tensor(batched, rows) == [batched |-> batched, rows |-> rows]

\* BartPreprocessor's packer: "<s>" + the tokens truncated to n - 2 + "</s>",
\* padded with "<pad>" to length n.
PackedSegment(row, n) ==
    <<StartTokenId>> \o SubSeq(row, 1, Min(Len(row), n - 2)) \o <<EndTokenId>>

PackTokenIds(row, n) ==
    [k \in 1..n |-> IF k <= Len(PackedSegment(row, n))
                    THEN PackedSegment(row, n)[k]
                    ELSE BartPadTokenId]

PackPaddingMask(row, n) == [k \in 1..n |-> k <= Len(PackedSegment(row, n))]

\* BartPreprocessor.call(x): both texts packed to the lengths the
\* constructor handed to super().__init__.
BartPreprocessorCall(enc, dec, enc_len, dec_len) ==
    [encoder_token_ids |->
        Tensor(enc.batched,
               [r \in DOMAIN enc.rows |-> PackTokenIds(enc.rows[r], enc_len)]),
     encoder_padding_mask |->
        Tensor(enc.batched,
               [r \in DOMAIN enc.rows |-> PackPaddingMask(enc.rows[r], enc_len)]),
     decoder_token_ids |->
        Tensor(dec.batched,
               [r \in DOMAIN dec.rows |-> PackTokenIds(dec.rows[r], dec_len)]),
     decoder_padding_mask |->
        Tensor(dec.batched,
               [r \in DOMAIN dec.rows |-> PackPaddingMask(dec.rows[r], dec_len)])]

\* tensor[..., :-1]: the slice acts on the last axis of every row
DropLast(t) ==
    Tensor(t.batched,
           [r \in DOMAIN t.rows |-> SubSeq(t.rows[r], 1, Len(t.rows[r]) - 1)])

\* tensor[..., 1:]
DropFirst_NoShift(t) ==
    Tensor(t.batched,
           [r \in DOMAIN t.rows |-> SubSeq(t.rows[r], 1, Len(t.rows[r]) - 1)])
DropFirst(t) ==
    Tensor(t.batched,
           [r \in DOMAIN t.rows |-> SubSeq(t.rows[r], 2, Len(t.rows[r]))])

\* __init__: super().__init__(encoder_sequence_length,
\* decoder_sequence_length + 1) and the private copies for the config.
SuperDecoderSequenceLength_AsPassed(d) == d
SuperDecoderSequenceLength(d) == d + 1

BartTexts(batched, n, rows) ==
    {Tensor(batched, t) : t \in [1..n -> rows]}

InitBart ==
    /\ encoder_sequence_length \in EncoderLens
    /\ decoder_sequence_length \in 1..MaxDecoderLen
    /\ packer_encoder_sequence_length = encoder_sequence_length
    /\ packer_decoder_sequence_length =
          SuperDecoderSequenceLength(decoder_sequence_length)
    /\ \E batched \in BOOLEAN :
       \E n \in (IF batched THEN {1, 2} ELSE {1}) :
       \E enc_row \in SeqsUpTo(EncoderWords, MaxTokens) :
          /\ encoder_text = Tensor(batched, [r \in 1..n |-> enc_row])
          /\ decoder_text \in BartTexts(batched, n, SeqsUpTo(DecoderWords, MaxTokens))
    /\ labels_passed \in BOOLEAN
    /\ bart_x = <<>>
    /\ bart_y = <<>>
    /\ bart_sample_weight = <<>>
    /\ bart_warned = FALSE
    /\ bart_pc = "constructed"

IdleBart ==
    /\ encoder_sequence_length = 0
    /\ decoder_sequence_length = 0
    /\ packer_encoder_sequence_length = 0
    /\ packer_decoder_sequence_length = 0
    /\ encoder_text = <<>>
    /\ decoder_text = <<>>
    /\ labels_passed = FALSE
    /\ bart_x = <<>>
    /\ bart_y = <<>>
    /\ bart_sample_weight = <<>>
    /\ bart_warned = FALSE
    /\ bart_pc = "idle"

\* call(x, y=None, sample_weight=None)
BartCall ==
    /\ bart_pc = "constructed"
    /\ bart_warned' = labels_passed
    /\ LET x == BartPreprocessorCall(encoder_text, decoder_text,
                                     packer_encoder_sequence_length,
                                     packer_decoder_sequence_length)
           decoder_token_ids == x.decoder_token_ids
           decoder_padding_mask == x.decoder_padding_mask
       IN  /\ bart_x' = [encoder_token_ids |-> x.encoder_token_ids,
                         encoder_padding_mask |-> x.encoder_padding_mask,
                         decoder_token_ids |-> DropLast(decoder_token_ids),
                         decoder_padding_mask |-> DropLast(decoder_padding_mask)]
           /\ bart_y' = DropFirst(decoder_token_ids)
           /\ bart_sample_weight' = DropFirst(decoder_padding_mask)
    /\ bart_pc' = "done"
    /\ UNCHANGED <<encoder_sequence_length, decoder_sequence_length,
                   packer_encoder_sequence_length,
                   packer_decoder_sequence_length,
                   encoder_text, decoder_text, labels_passed>>

(***************************************************************************)
(* Task.from_preset and Preprocessor.from_preset                           *)
(***************************************************************************)
PresetNames == {"preset_a", "preset_b"}
\* Names a caller may pass: the two above and one that no class defines.
PresetArgs == PresetNames \cup {"unknown"}

\* A dict without entries (no presets, no keyword arguments, no object).
EmptyDict == [k \in {} |-> 0]

\* metadata["config"] of a preset: a backbone config, or a task config with
\* the backbone config nested, with or without an "activation" entry.
BackboneConfigs == {[max_sequence_length |-> n] : n \in 1..MaxSequenceLength}

PresetConfigs ==
    BackboneConfigs
    \cup {[backbone |-> [config |-> c]] : c \in BackboneConfigs}
    \cup {[backbone |-> [config |-> c], activation |-> "tanh"] :
             c \in BackboneConfigs}

\* The presets a class may define: none, or the same config under one or
\* two names.
PresetDicts ==
    {EmptyDict} \cup {[n \in names |-> c] :
                         names \in {{"preset_a"}, PresetNames},
                         c \in PresetConfigs}

Raise(error, log) == [outcome |-> error, log |-> log, value |-> EmptyDict]

Return(value, log) == [outcome |-> "returned", log |-> log, value |-> value]

\* kwargs.pop(key, None) leaves the other keyword arguments
Pop(kw, key) == [k \in DOMAIN kw \ {key} |-> kw[k]]

\* {**a, **b}: the entries of b override those of a
Merge(a, b) ==
    [k \in DOMAIN a \cup DOMAIN b |-> IF k \in DOMAIN b THEN b[k] ELSE a[k]]

\* metadata["config"]["backbone"]["config"] for a task preset, else
\* metadata["config"]
BackboneConfigOf(config) ==
    IF "backbone" \in DOMAIN config THEN config.backbone.config ELSE config

\* sequence_length > max_sequence_length
SequenceLengthTooLong_Inclusive(sequence_length, max_sequence_length) ==
    sequence_length >= max_sequence_length
SequenceLengthTooLong(sequence_length, max_sequence_length) ==
    sequence_length > max_sequence_length

\* Preprocessor.from_preset(preset, **kwargs) of a class with these presets.
PreprocessorFromPreset(presets, name, kw) ==
    IF DOMAIN presets = {}
    THEN Raise("NotImplementedError", <<>>)
    ELSE IF name \notin DOMAIN presets
    THEN Raise("ValueError", <<>>)
    ELSE LET log == <<"tokenizer_cls.from_preset">>
             backbone_config == BackboneConfigOf(presets[name])
             max_sequence_length == backbone_config.max_sequence_length
             rest == Pop(kw, "sequence_length")
         IN  IF "sequence_length" \in DOMAIN kw
             THEN IF SequenceLengthTooLong(kw.sequence_length,
                                           max_sequence_length)
                  THEN Raise("ValueError", log)
                  ELSE Return(Merge([sequence_length |-> kw.sequence_length],
                                    rest),
                              Append(log, "cls"))
             ELSE Return(Merge([sequence_length |-> max_sequence_length],
                               rest),
                         Append(log, "cls"))

\* The part of Task.from_preset after the preprocessor is in kwargs.
TaskFromPresetWith(name, kw, log) ==
    IF name \in DOMAIN backbone_presets
    THEN Return(Merge([backbone |-> name], kw),
                log \o <<"backbone_cls.from_preset", "cls">>)
    ELSE LET config == task_presets[name]
         IN  IF /\ "activation" \in DOMAIN config
                /\ "activation" \in DOMAIN kw
                /\ config.activation /= kw.activation
             THEN Raise("ValueError", log)
             ELSE IF ~load_weights
             THEN Return(Merge(config, kw), Append(log, "cls.from_config"))
             ELSE Return(Merge(config, kw),
                         log \o <<"cls.from_config", "get_file",
                                  "load_weights">>)

\* Task.from_preset(preset, load_weights, **kwargs)
TaskFromPreset_BuildFirst(name, kw) ==
    LET p == IF "preprocessor" \notin DOMAIN kw
             THEN PreprocessorFromPreset(preprocessor_presets, name, EmptyDict)
             ELSE Return(kw.preprocessor, <<>>)
    IN  IF p.outcome /= "returned"
        THEN p
        ELSE IF DOMAIN task_presets = {}
        THEN Raise("NotImplementedError", p.log)
        ELSE IF name \notin DOMAIN task_presets
        THEN Raise("ValueError", p.log)
        ELSE TaskFromPresetWith(name, Merge(kw, [preprocessor |-> p.value]),
                                p.log)
TaskFromPreset(name, kw) ==
    IF DOMAIN task_presets = {}
    THEN Raise("NotImplementedError", <<>>)
    ELSE IF name \notin DOMAIN task_presets
    THEN Raise("ValueError", <<>>)
    ELSE IF "preprocessor" \notin DOMAIN kw
    THEN LET p == PreprocessorFromPreset(preprocessor_presets, name,
                                         EmptyDict)
         IN  IF p.outcome /= "returned"
             THEN p
             ELSE TaskFromPresetWith(name,
                                     Merge(kw, [preprocessor |-> p.value]),
                                     p.log)
    ELSE TaskFromPresetWith(name, kw, <<>>)

\* Keyword arguments of the two classmethods.
PreprocessorKwargs ==
    {EmptyDict}
    \cup {[sequence_length |-> n] : n \in 0..(MaxSequenceLength + 1)}

TaskKwargs ==
    {EmptyDict, [activation |-> "tanh"], [activation |-> "relu"],
     [preprocessor |-> [sequence_length |-> 1]],
     [preprocessor |-> [sequence_length |-> 1], activation |-> "relu"]}

InitPreset ==
    /\ from_preset_method \in {"Task.from_preset", "Preprocessor.from_preset"}
    /\ preprocessor_presets \in PresetDicts
    /\ preset \in PresetArgs
    /\ IF from_preset_method = "Task.from_preset"
       THEN /\ task_presets \in PresetDicts
            /\ backbone_presets \in
                  {[n \in names |-> c] :
                      names \in {{}, {"preset_a"}}, c \in BackboneConfigs}
            /\ load_weights \in BOOLEAN
            /\ kwargs \in TaskKwargs
       ELSE /\ task_presets = EmptyDict
            /\ backbone_presets = EmptyDict
            /\ load_weights = TRUE
            /\ kwargs \in PreprocessorKwargs
    /\ from_preset_log = <<>>
    /\ from_preset_result = EmptyDict
    /\ from_preset_pc = "called"

IdlePreset ==
    /\ from_preset_method = "none"
    /\ task_presets = EmptyDict
    /\ preprocessor_presets = EmptyDict
    /\ backbone_presets = EmptyDict
    /\ preset = "none"
    /\ load_weights = TRUE
    /\ kwargs = EmptyDict
    /\ from_preset_log = <<>>
    /\ from_preset_result = EmptyDict
    /\ from_preset_pc = "idle"

\* Preprocessor.from_preset(preset, **kwargs)
PreprocessorFromPresetCall ==
    /\ from_preset_pc = "called"
    /\ from_preset_method = "Preprocessor.from_preset"
    /\ LET r == PreprocessorFromPreset(preprocessor_presets, preset, kwargs)
       IN  /\ from_preset_log' = r.log
           /\ from_preset_result' = r
    /\ from_preset_pc' = "done"
    /\ UNCHANGED <<from_preset_method, task_presets, preprocessor_presets,
                   backbone_presets, preset, load_weights, kwargs>>

\* Task.from_preset(preset, load_weights=True, **kwargs)
TaskFromPresetCall ==
    /\ from_preset_pc = "called"
    /\ from_preset_method = "Task.from_preset"
    /\ LET r == TaskFromPreset(preset, kwargs)
       IN  /\ from_preset_log' = r.log
           /\ from_preset_result' = r
    /\ from_preset_pc' = "done"
    /\ UNCHANGED <<from_preset_method, task_presets, preprocessor_presets,
                   backbone_presets, preset, load_weights, kwargs>>

(***************************************************************************)
(* Task: construction, the preprocessor setter, get_config and from_config *)
(***************************************************************************)
\* Python's None, and a test for "is a dict" that tells a serialized layer
\* ({"class_name": ..., "config": ...}) from a layer object and from None.
None == [object |-> "None"]

IsDict(v) == "config" \in DOMAIN v

TaskClasses == {"AlbertClassifier", "RobertaClassifier"}

Backbones(cls) ==
    {[object |-> IF cls = "AlbertClassifier"
                 THEN "AlbertBackbone" ELSE "RobertaBackbone",
      hidden_dim |-> h, name |-> "backbone"] : h \in {2, 256}}

Preprocessors(cls) ==
    {[object |-> IF cls = "AlbertClassifier"
                 THEN "AlbertPreprocessor" ELSE "RobertaPreprocessor",
      sequence_length |-> n, name |-> "preprocessor"] : n \in {8, 128}}

\* keras.layers.serialize(layer): None for None, else the class name and
\* the constructor arguments of the layer.
Serialize(layer) ==
    IF layer = None
    THEN None
    ELSE [class_name |-> layer.object,
          config |-> [k \in DOMAIN layer \ {"object"} |-> layer[k]]]

\* keras.layers.deserialize(config): the layer of that class built from the
\* arguments.
Deserialize(config) ==
    [k \in DOMAIN config.config \cup {"object"} |->
        IF k = "object" THEN config.class_name ELSE config.config[k]]

\* The keyword argument of that name, or the default of the signature.
Arg(kw, key, default) == IF key \in DOMAIN kw THEN kw[key] ELSE default

\* The name Keras gives a model constructed without one.
AutoName(cls) ==
    IF cls = "AlbertClassifier"
    THEN "albert_classifier" ELSE "roberta_classifier"

\* PipelineModel.__init__ / keras.Model.__init__: include_preprocessing,
\* name and trainable.
PipelineModelInit(cls, kw) ==
    [object |-> cls,
     include_preprocessing |-> Arg(kw, "include_preprocessing", TRUE),
     name |-> Arg(kw, "name", AutoName(cls)),
     trainable |-> Arg(kw, "trainable", TRUE)]

\* Task.__init__
TaskInit(cls, kw) ==
    Merge([_backbone |-> None, _preprocessor |-> None],
          PipelineModelInit(cls, kw))

\* Task.preprocessor setter
SetPreprocessor_KeepFlag(self, value) ==
    [self EXCEPT !._preprocessor = value]
SetPreprocessor(self, value) ==
    [self EXCEPT !.include_preprocessing = (value /= None),
                 !._preprocessor = value]

\* Task.backbone setter
SetBackbone(self, value) == [self EXCEPT !._backbone = value]

\* The keyword arguments that reach super().__init__ through **kwargs.
SuperKwargs(kw) ==
    [k \in DOMAIN kw \cap {"name", "trainable"} |-> kw[k]]

\* AlbertClassifier.__init__(backbone, num_classes=2, dropout=0.1,
\* preprocessor=None, **kwargs)
AlbertClassifierInit(kw) ==
    LET preprocessor == Arg(kw, "preprocessor", None)
        self == TaskInit("AlbertClassifier",
                         Merge(SuperKwargs(kw),
                               [include_preprocessing |->
                                   (preprocessor /= None)]))
    IN  Merge([self EXCEPT !._backbone = kw.backbone,
                           !._preprocessor = preprocessor],
              [num_classes |-> Arg(kw, "num_classes", 2),
               dropout |-> Arg(kw, "dropout", "0.1")])

\* RobertaClassifier.__init__(backbone, num_classes, hidden_dim=None,
\* dropout=0.0, preprocessor=None, **kwargs)
RobertaClassifierInit(kw) ==
    LET preprocessor == Arg(kw, "preprocessor", None)
        self == TaskInit("RobertaClassifier",
                         Merge(SuperKwargs(kw),
                               [include_preprocessing |->
                                   (preprocessor /= None)]))
    IN  Merge(SetPreprocessor(SetBackbone(self, kw.backbone), preprocessor),
              [num_classes |-> kw.num_classes,
               hidden_dim |-> Arg(kw, "hidden_dim", kw.backbone.hidden_dim),
               dropout |-> Arg(kw, "dropout", "0.0")])

\* cls(**config)
Construct(cls, kw) ==
    IF cls = "AlbertClassifier"
    THEN AlbertClassifierInit(kw)
    ELSE RobertaClassifierInit(kw)

\* Task.get_config
TaskGetConfig(self) ==
    [backbone |-> Serialize(self._backbone),
     preprocessor |-> Serialize(self._preprocessor),
     name |-> self.name,
     trainable |-> self.trainable]

\* AlbertClassifier.get_config / RobertaClassifier.get_config
GetConfig(self) ==
    IF self.object = "AlbertClassifier"
    THEN Merge(TaskGetConfig(self),
               [num_classes |-> self.num_classes,
                dropout |-> self.dropout])
    ELSE Merge(TaskGetConfig(self),
               [num_classes |-> self.num_classes,
                hidden_dim |-> self.hidden_dim,
                dropout |-> self.dropout])

\* Task.from_config(config): the caller's dict after the call. The entries
\* "backbone" and "preprocessor" that are dicts are replaced in place by the
\* deserialized layers.
FromConfigInPlace(config) ==
    LET with_backbone ==
            IF "backbone" \in DOMAIN config /\ IsDict(config.backbone)
            THEN Merge(config, [backbone |-> Deserialize(config.backbone)])
            ELSE config
    IN  IF /\ "preprocessor" \in DOMAIN with_backbone
           /\ IsDict(with_backbone.preprocessor)
        THEN Merge(with_backbone,
                   [preprocessor |->
                       Deserialize(with_backbone.preprocessor)])
        ELSE with_backbone

\* Task.from_config(config): the returned instance, cls(**config) of the
\* dict so changed.
FromConfig_NoPreprocessor(cls, config) ==
    Construct(cls, Merge(FromConfigInPlace(config), [preprocessor |-> None]))
FromConfig(cls, config) == Construct(cls, FromConfigInPlace(config))

\* Optional keyword arguments of the constructors.
OptionalKwargs(cls) ==
    {Merge(a, Merge(b, c)) :
        a \in {EmptyDict} \cup {[preprocessor |-> p] :
                                   p \in Preprocessors(cls) \cup {None}},
        b \in {EmptyDict, [name |-> "my_classifier", trainable |-> FALSE]},
        c \in {EmptyDict, [dropout |-> "0.5"]}
              \cup (IF cls = "RobertaClassifier"
                    THEN {[hidden_dim |-> 4]} ELSE {})}

ConstructorKwargs(cls) ==
    {Merge(a, b) :
        a \in {Merge([backbone |-> bb], n) :
                  bb \in Backbones(cls),
                  n \in {[num_classes |-> 4]}
                        \cup (IF cls = "AlbertClassifier"
                              THEN {EmptyDict} ELSE {})},
        b \in OptionalKwargs(cls)}

InitTask ==
    /\ \E cls \in TaskClasses : \E kw \in ConstructorKwargs(cls) :
          task = Construct(cls, kw)
    /\ task_config = None
    /\ restored_task = None
    /\ preprocessing_applied = FALSE
    /\ task_pc = "constructed"

IdleTask ==
    /\ task = None
    /\ task_config = None
    /\ restored_task = None
    /\ preprocessing_applied = FALSE
    /\ task_pc = "idle"

TaskLive == task_pc \in {"constructed", "assigned", "predicted",
                         "serialized", "restored"}

\* task.preprocessor = value
AssignPreprocessor ==
    /\ TaskLive
    /\ \E value \in Preprocessors(task.object) \cup {None} :
          task' = SetPreprocessor(task, value)
    /\ task_pc' = "assigned"
    /\ UNCHANGED <<task_config, restored_task, preprocessing_applied>>

\* task.backbone = value
AssignBackbone ==
    /\ TaskLive
    /\ \E value \in Backbones(task.object) :
          task' = SetBackbone(task, value)
    /\ task_pc' = "assigned"
    /\ UNCHANGED <<task_config, restored_task, preprocessing_applied>>

\* task.predict(x) / fit / evaluate: PipelineModel preprocesses the input
\* when include_preprocessing is set.
Predict ==
    /\ TaskLive
    /\ preprocessing_applied' = task.include_preprocessing
    /\ task_pc' = "predicted"
    /\ UNCHANGED <<task, task_config, restored_task>>

\* config = task.get_config()
GetConfigCall ==
    /\ TaskLive
    /\ task_config' = GetConfig(task)
    /\ task_pc' = "serialized"
    /\ UNCHANGED <<task, restored_task, preprocessing_applied>>

\* cls.from_config(config) with the dict get_config returned, which the
\* call changes in place; a second call on the same dict finds the layers
\* there and deserializes nothing.
FromConfigCall ==
    /\ task_pc \in {"serialized", "restored"}
    /\ restored_task' = FromConfig(task.object, task_config)
    /\ task_config' = FromConfigInPlace(task_config)
    /\ task_pc' = "restored"
    /\ UNCHANGED <<task, preprocessing_applied>>

(***************************************************************************)
(* XLMRobertaBase / XLMRobertaLarge and _handle_pretrained_model_arguments *)
(***************************************************************************)
\* Python values: None, a string, an integer.
PyNone == [type |-> "NoneType"]

PyStr(str) == [type |-> "str", value |-> str]

PyInt(n) == [type |-> "int", value |-> n]

\* The truth value Python gives a value in `if v` and `a and b`.
Truthy(v) ==
    IF v.type = "NoneType" THEN FALSE
    ELSE IF v.type = "str" THEN v.value /= ""
    ELSE v.value /= 0

XLMRobertaVariants == {"XLMRobertaBase", "XLMRobertaLarge"}

\* xlm_roberta_checkpoints.checkpoints: the vocabulary of each checkpoint
Checkpoints ==
    [name \in {"xlm_roberta_base", "xlm_roberta_large"} |->
        [vocabulary |-> "xlm_roberta_multi"]]

\* xlm_roberta_checkpoints.compatible_checkpoints(variant)
CompatibleCheckpoints(variant) ==
    IF variant = "XLMRobertaBase"
    THEN {"xlm_roberta_base"}
    ELSE {"xlm_roberta_large"}

\* xlm_roberta_checkpoints.vocabularies
Vocabularies ==
    [name \in {"xlm_roberta_multi"} |-> [vocabulary_size |-> 250002]]

\* _handle_pretrained_model_arguments(xlm_roberta_variant, weights,
\* vocabulary_size)
HandlePretrainedModelArguments(variant, w, size) ==
    IF \/ (size = PyNone /\ w = PyNone)
       \/ (Truthy(size) /\ Truthy(w))
    THEN Raise("ValueError", <<>>)
    ELSE IF Truthy(w)
    THEN IF w.value \notin CompatibleCheckpoints(variant)
         THEN Raise("ValueError", <<>>)
         ELSE LET metadata == Checkpoints[w.value]
                  vocabulary == metadata.vocabulary
              IN  Return([weights |-> PyStr("model.h5"),
                          vocabulary_size |->
                             PyInt(Vocabularies[vocabulary].vocabulary_size)],
                         <<"get_file">>)
    ELSE Return([weights |-> w, vocabulary_size |-> size], <<>>)

WeightsArgs ==
    {PyNone, PyStr(""), PyStr("xlm_roberta_base"), PyStr("xlm_roberta_large"),
     PyStr("xlm_roberta_clowntown")}

VocabularySizeArgs == {PyNone, PyInt(0), PyInt(1000), PyInt(250002)}

InitXLMRoberta ==
    /\ xlm_roberta_variant \in XLMRobertaVariants
    /\ weights \in WeightsArgs
    /\ vocabulary_size \in VocabularySizeArgs
    /\ trainable \in BOOLEAN
    /\ xlm_handled = EmptyDict
    /\ xlm_model = EmptyDict
    /\ xlm_pc = "called"

IdleXLMRoberta ==
    /\ xlm_roberta_variant = "none"
    /\ weights = PyNone
    /\ vocabulary_size = PyNone
    /\ trainable = TRUE
    /\ xlm_handled = EmptyDict
    /\ xlm_model = EmptyDict
    /\ xlm_pc = "idle"

\* weights, vocabulary_size = _handle_pretrained_model_arguments(...)
HandleArguments ==
    /\ xlm_pc = "called"
    /\ xlm_handled' = HandlePretrainedModelArguments(xlm_roberta_variant,
                                                     weights, vocabulary_size)
    /\ xlm_pc' = IF xlm_handled'.outcome = "returned"
                 THEN "handled" ELSE "raised"
    /\ UNCHANGED <<xlm_roberta_variant, weights, vocabulary_size, trainable,
                   xlm_model>>

\* model = XLMRobertaCustom(vocabulary_size=vocabulary_size, ...)
BuildModel ==
    /\ xlm_pc = "handled"
    /\ xlm_model' = [vocabulary_size |-> xlm_handled.value.vocabulary_size,
                     num_layers |->
                        IF xlm_roberta_variant = "XLMRobertaBase"
                        THEN 12 ELSE 24,
                     trainable |-> trainable,
                     weights_loaded |-> FALSE]
    /\ xlm_pc' = "built"
    /\ UNCHANGED <<xlm_roberta_variant, weights, vocabulary_size, trainable,
                   xlm_handled>>

\* if weights: model.load_weights(weights); return model
LoadWeightsAndReturn ==
    /\ xlm_pc = "built"
    /\ xlm_model' = [xlm_model EXCEPT
                        !.weights_loaded = Truthy(xlm_handled.value.weights)]
    /\ xlm_pc' = "returned"
    /\ UNCHANGED <<xlm_roberta_variant, weights, vocabulary_size, trainable,
                   xlm_handled>>

(***************************************************************************)
(* Phi3Attention.call                                                      *)
(***************************************************************************)
\* A key/value cache of the given length: per position, the entry the key
\* and the value cache hold ("cached" before the call).
CacheOf(len) == [type |-> "tensor",
                 key |-> [k \in 1..len |-> "cached"],
                 value |-> [k \in 1..len |-> "cached"]]

\* ops.slice_update(cache, [0, index, 0, 0], update): the entries from
\* position index on (0-based) replaced by the update.
SliceUpdate(entries, index, update) ==
    [k \in DOMAIN entries |->
        IF k - 1 >= index /\ k - 1 < index + Len(update)
        THEN update[k - index]
        ELSE entries[k]]

\* The keys and values projected from hidden_states, rotated from
\* start_index on.
Projected(len, start_index) ==
    [k \in 1..len |-> <<"projected", start_index + k - 1>>]

\* `cache is None` with `cache_update_index is not None`
IndexWithoutCache_AnyIndex(c, index) == index /= PyNone
IndexWithoutCache(c, index) == c = PyNone /\ index /= PyNone

\* _compute_attention, dropout and the output projection: one output row
\* per query position, computed from these keys and values.
AttentionOutput(query_len, key, value, masking, train) ==
    [type |-> "tensor", query_len |-> query_len, key |-> key,
     value |-> value, masked |-> masking /= PyNone, training |-> train]

\* Phi3Attention.call(hidden_states, attention_mask, cache,
\* cache_update_index, training)
Phi3AttentionCall(len, masking, c, index, train) ==
    LET start_index == IF index /= PyNone THEN index.value ELSE 0
        query == Projected(len, start_index)
    IN  IF IndexWithoutCache(c, index)
        THEN Raise("ValueError", <<>>)
        ELSE IF c = PyNone
        THEN Return(AttentionOutput(len, query, query, masking, train), <<>>)
        ELSE IF index = PyNone
        THEN Return([attention_output |->
                        AttentionOutput(len, c.key, c.value, masking, train),
                     cache |-> c], <<>>)
        ELSE LET key == SliceUpdate(c.key, index.value, query)
                 value == SliceUpdate(c.value, index.value, query)
             IN  Return([attention_output |->
                            AttentionOutput(len, key, value, masking, train),
                         cache |-> [type |-> "tensor", key |-> key,
                                    value |-> value]], <<>>)

InitPhi3 ==
    /\ hidden_states \in 1..MaxQueryLen
    /\ attention_mask \in {PyNone, PyStr("mask")}
    /\ cache \in {PyNone} \cup {CacheOf(len) : len \in 2..MaxCacheLen}
    /\ cache_update_index \in
          {PyNone} \cup {PyInt(i) : i \in 0..(MaxCacheLen - 1)}
    \* an update lies inside the cache
    /\ (cache /= PyNone /\ cache_update_index /= PyNone) =>
          cache_update_index.value + hidden_states <= Len(cache.key)
    /\ training \in {PyNone, PyStr("True"), PyStr("False")}
    /\ phi3_result = EmptyDict
    /\ phi3_pc = "called"

IdlePhi3 ==
    /\ hidden_states = 0
    /\ attention_mask = PyNone
    /\ cache = PyNone
    /\ cache_update_index = PyNone
    /\ training = PyNone
    /\ phi3_result = EmptyDict
    /\ phi3_pc = "idle"

Phi3Call ==
    /\ phi3_pc = "called"
    /\ phi3_result' = Phi3AttentionCall(hidden_states, attention_mask, cache,
                                        cache_update_index, training)
    /\ phi3_pc' = "done"
    /\ UNCHANGED <<hidden_states, attention_mask, cache, cache_update_index,
                   training>>

(***************************************************************************)
(* StableDiffusion3TextToImage.generate_step and text_to_image             *)
(***************************************************************************)
\* Latents: the noise they were sampled from and the denoising steps
\* applied to it since, oldest first.
Noise(seed) == [noise |-> seed, steps |-> <<>>]

\* backbone.encode_step(token_ids, negative_token_ids)
EncodeStep(tokens) == [encoded |-> tokens]

\* backbone.denoise_step(latents, embeddings, step, num_steps,
\* classifier_free_guidance_scale)
DenoiseStep(l, e, i, n, scale) ==
    [l EXCEPT !.steps = Append(@, [step |-> i, num_steps |-> n,
                                   embeddings |-> e, scale |-> scale])]

\* backbone.decode_step(latents)
DecodeStep(l) == [decoded |-> l]

\* TextToImage._normalize_inputs(inputs): whether the prompt was one string
\* and not a list; and _normalize_outputs(outputs, input_is_scalar), which
\* receives the decoder's output and that flag.
NormalizeOutputs(outputs, scalar) ==
    [normalized |-> outputs, input_is_scalar |-> scalar]

\* range(num_steps) / ops.fori_loop(0, num_steps, ...): the loop body runs
\* for this index
LoopRuns_Inclusive(i, n) == i <= n
LoopRuns(i, n) == i < n

Seeds == {"seed_a", "seed_b"}

GuidanceScales == {1, 7}

InitSD3 ==
    /\ sd3_function \in {"generate_step", "text_to_image"}
    /\ sd3_num_steps \in 0..MaxNumSteps
    /\ classifier_free_guidance_scale \in GuidanceScales
    /\ initial_latents \in {Noise(seed) : seed \in Seeds}
    /\ IF sd3_function = "generate_step"
       THEN /\ token_ids = [prompt |-> "tokens", negative |-> "tokens"]
            /\ latents = initial_latents
            /\ input_is_scalar = FALSE
            /\ sd3_pc = "encode"
       ELSE /\ token_ids = EmptyDict
            /\ latents = EmptyDict
            /\ input_is_scalar \in BOOLEAN
            /\ sd3_pc = "preprocess"
    /\ embeddings = EmptyDict
    /\ step = 0
    /\ sd3_calls = <<>>
    /\ sd3_outputs = EmptyDict

IdleSD3 ==
    /\ sd3_function = "none"
    /\ sd3_num_steps = 0
    /\ classifier_free_guidance_scale = 0
    /\ token_ids = EmptyDict
    /\ initial_latents = EmptyDict
    /\ latents = EmptyDict
    /\ embeddings = EmptyDict
    /\ step = 0
    /\ sd3_calls = <<>>
    /\ sd3_outputs = EmptyDict
    /\ input_is_scalar = FALSE
    /\ sd3_pc = "idle"

\* text_to_image: normalize and preprocess the prompts, sample the initial
\* latents
PreprocessInputs ==
    /\ sd3_pc = "preprocess"
    /\ token_ids' = [prompt |-> "tokens", negative |-> "tokens"]
    /\ latents' = initial_latents
    /\ sd3_pc' = "encode"
    /\ UNCHANGED <<sd3_function, sd3_num_steps,
                   classifier_free_guidance_scale, initial_latents,
                   embeddings, step, sd3_calls, sd3_outputs,
                   input_is_scalar>>

\* embeddings = encode(token_ids, negative_token_ids)
Encode ==
    /\ sd3_pc = "encode"
    /\ embeddings' = EncodeStep(token_ids)
    /\ sd3_calls' = Append(sd3_calls, [op |-> "encode", step |-> 0,
                                       input |-> token_ids,
                                       output |-> embeddings'])
    /\ step' = 0
    /\ sd3_pc' = "denoise"
    /\ UNCHANGED <<sd3_function, sd3_num_steps,
                   classifier_free_guidance_scale, token_ids,
                   initial_latents, latents, sd3_outputs, input_is_scalar>>

\* one iteration of the denoising loop
Denoise ==
    /\ sd3_pc = "denoise"
    /\ LoopRuns(step, sd3_num_steps)
    /\ latents' = DenoiseStep(latents, embeddings, step, sd3_num_steps,
                              classifier_free_guidance_scale)
    /\ sd3_calls' = Append(sd3_calls, [op |-> "denoise", step |-> step,
                                       input |-> latents,
                                       output |-> latents'])
    /\ step' = step + 1
    /\ UNCHANGED <<sd3_function, sd3_num_steps,
                   classifier_free_guidance_scale, token_ids,
                   initial_latents, embeddings, sd3_outputs,
                   input_is_scalar, sd3_pc>>

\* the loop is over: decode the latents and return the decoder's output
\* (generate_step) or what _normalize_outputs makes of it (text_to_image)
Decode ==
    /\ sd3_pc = "denoise"
    /\ ~LoopRuns(step, sd3_num_steps)
    /\ sd3_outputs' =
          IF sd3_function = "text_to_image"
          THEN NormalizeOutputs(DecodeStep(latents), input_is_scalar)
          ELSE DecodeStep(latents)
    /\ sd3_calls' = Append(sd3_calls, [op |-> "decode", step |-> 0,
                                       input |-> latents,
                                       output |-> DecodeStep(latents)])
    /\ sd3_pc' = "done"
    /\ UNCHANGED <<sd3_function, sd3_num_steps,
                   classifier_free_guidance_scale, token_ids,
                   initial_latents, latents, embeddings, step,
                   input_is_scalar>>

(***************************************************************************)
(* ImageSegmenter.compile                                                  *)
(***************************************************************************)
\* An instance of a Keras class built with these arguments.
PyObject(class, args) == [type |-> "object", class |-> class, args |-> args]

\* A Python list.
PyList(items) == [type |-> "list", items |-> items]

\* keras.activations.get(activation): the function of that name, linear for
\* None.
ActivationsGet(a) == IF a = PyNone THEN "linear" ELSE a.value

\* ImageSegmenter.compile(optimizer, loss, metrics, **kwargs): the keyword
\* arguments of super().compile
SegmenterCompile(self_activation, opt, l, m, kw) ==
    LET optimizer_used ==
            IF opt = PyStr("auto")
            THEN PyObject("keras.optimizers.Adam",
                          [learning_rate |-> "5e-5"])
            ELSE opt
        from_logits == ActivationsGet(self_activation) /= "softmax"
        loss_used ==
            IF l = PyStr("auto")
            THEN PyObject("keras.losses.CategoricalCrossentropy",
                          [from_logits |-> from_logits])
            ELSE l
        metrics_used ==
            IF m = PyStr("auto")
            THEN PyList(<<PyObject("keras.metrics.CategoricalAccuracy",
                                   EmptyDict)>>)
            ELSE m
    IN  Merge([optimizer |-> optimizer_used, loss |-> loss_used,
               metrics |-> metrics_used], kw)

OptimizerArgs ==
    {PyStr("auto"), PyStr("sgd"),
     PyObject("keras.optimizers.Adam", [learning_rate |-> "1e-3"])}

LossArgs ==
    {PyStr("auto"), PyStr("mse"), PyNone,
     PyObject("keras.losses.SparseCategoricalCrossentropy",
              [from_logits |-> TRUE])}

MetricsArgs ==
    {PyStr("auto"), PyNone, PyList(<<PyStr("accuracy")>>)}

InitSegmenter ==
    /\ activation \in {PyNone, PyStr("softmax"), PyStr("relu")}
    /\ optimizer \in OptimizerArgs
    /\ loss \in LossArgs
    /\ metrics \in MetricsArgs
    /\ compile_kwargs \in {EmptyDict, [jit_compile |-> FALSE]}
    /\ compiled = EmptyDict
    /\ compile_pc = "called"

IdleSegmenter ==
    /\ activation = PyNone
    /\ optimizer = PyNone
    /\ loss = PyNone
    /\ metrics = PyNone
    /\ compile_kwargs = EmptyDict
    /\ compiled = EmptyDict
    /\ compile_pc = "idle"

Compile ==
    /\ compile_pc = "called"
    /\ compiled' = SegmenterCompile(activation, optimizer, loss, metrics,
                                    compile_kwargs)
    /\ compile_pc' = "compiled"
    /\ UNCHANGED <<activation, optimizer, loss, metrics, compile_kwargs>>

(***************************************************************************)
(* MaskedLMHead: __init__ and compute_output_shape                         *)
(***************************************************************************)
\* A tensor, by its shape.
PyTensor(shape) == [type |-> "tensor", shape |-> shape]

\* vocabulary_size != shape[0]
VocabularyMismatch(size, shape) == size.value /= shape[1]

\* MaskedLMHead.__init__(vocabulary_size, embedding_weights, ...)
MaskedLMHeadInit(size, weights_arg) ==
    IF size = PyNone /\ weights_arg = PyNone
    THEN Raise("ValueError", <<>>)
    ELSE IF weights_arg /= PyNone
    THEN IF size /= PyNone /\ VocabularyMismatch(size, weights_arg.shape)
         THEN Raise("ValueError", <<>>)
         ELSE Return([vocabulary_size |-> PyInt(weights_arg.shape[1]),
                      embedding_weights |-> weights_arg], <<>>)
    ELSE Return([vocabulary_size |-> size,
                 embedding_weights |-> weights_arg], <<>>)

\* MaskedLMHead.compute_output_shape(inputs_shape, masked_positions_shape):
\* output_shape = list(masked_positions_shape);
\* output_shape[-1] = self.vocabulary_size
ComputeOutputShape(self, in_shape, positions_shape) ==
    [positions_shape EXCEPT ![Len(positions_shape)] =
                               self.vocabulary_size.value]

HeadVocabularySizes == {PyNone, PyInt(0), PyInt(3), PyInt(5)}

EmbeddingWeights == {PyNone, PyTensor(<<3, 2>>), PyTensor(<<5, 2>>)}

InitHead ==
    /\ head_vocabulary_size \in HeadVocabularySizes
    /\ embedding_weights \in EmbeddingWeights
    /\ \E b \in 1..MaxBatch : \E m \in 1..MaxMasks :
          /\ inputs_shape = <<b, m + 1, 2>>
          /\ masked_positions_shape = <<b, m>>
    /\ head = EmptyDict
    /\ output_shape = <<>>
    /\ head_pc = "called"

IdleHead ==
    /\ head_vocabulary_size = PyNone
    /\ embedding_weights = PyNone
    /\ inputs_shape = <<>>
    /\ masked_positions_shape = <<>>
    /\ head = EmptyDict
    /\ output_shape = <<>>
    /\ head_pc = "idle"

\* layer = MaskedLMHead(vocabulary_size, embedding_weights)
HeadInit ==
    /\ head_pc = "called"
    /\ head' = MaskedLMHeadInit(head_vocabulary_size, embedding_weights)
    /\ head_pc' = IF head'.outcome = "returned" THEN "constructed"
                  ELSE "raised"
    /\ UNCHANGED <<head_vocabulary_size, embedding_weights, inputs_shape,
                   masked_positions_shape, output_shape>>

\* layer.compute_output_shape(inputs_shape, masked_positions_shape)
HeadComputeOutputShape ==
    /\ head_pc = "constructed"
    /\ output_shape' = ComputeOutputShape(head.value, inputs_shape,
                                          masked_positions_shape)
    /\ head_pc' = "computed"
    /\ UNCHANGED <<head_vocabulary_size, embedding_weights, head,
                   inputs_shape, masked_positions_shape>>

(***************************************************************************)
(* GPTNeoXPreprocessor: __init__ and call                                  *)
(***************************************************************************)
\* class Preprocessor: tokenizer is a property whose getter returns
\* self._tokenizer; the class defines no setter for it.
PreprocessorProperties ==
    [tokenizer |-> [fget |-> "_tokenizer", fset |-> FALSE]]

\* self.<name> = value on a Preprocessor: AttributeError when the name is a
\* property without a setter, else the attribute is set.
SetAttr(self, name, value) ==
    IF name \in DOMAIN PreprocessorProperties
    THEN IF PreprocessorProperties[name].fset
         THEN [outcome |-> "returned",
               value |-> [k \in DOMAIN self
                                \cup {PreprocessorProperties[name].fget} |->
                             IF k = PreprocessorProperties[name].fget
                             THEN value ELSE self[k]]]
         ELSE [outcome |-> "AttributeError", value |-> self]
    ELSE [outcome |-> "returned",
          value |-> [k \in DOMAIN self \cup {name} |->
                        IF k = name THEN value ELSE self[k]]]

\* self.<name> on a Preprocessor: what the getter returns for a property,
\* else the attribute.
GetAttr(self, name) ==
    IF name \in DOMAIN PreprocessorProperties
    THEN self[PreprocessorProperties[name].fget]
    ELSE self[name]

\* The tokenizer handed to the constructor, by the three ids the packer
\* reads from it: one whose special tokens all share "<|endoftext|>" and one
\* whose special tokens differ.
GPTNeoXTokenizers ==
    {[start_token_id |-> 0, end_token_id |-> 0, pad_token_id |-> 0],
     [start_token_id |-> 1, end_token_id |-> 2, pad_token_id |-> 0]}

NeoXWords == {3, 4}

\* tokenizer(segment) for every one-segment text the model passes.
NeoXSegments ==
    {Tensor(FALSE, <<row>>) : row \in SeqsUpTo(NeoXWords, MaxNeoXTokens)}
    \cup {Tensor(TRUE, <<row, row>>) : row \in SeqsUpTo(NeoXWords, 1)}

\* The values of x: a python string, a list of python strings (a batch), a
\* tensor, a list of 0..2 tensors, and a value of no supported type.
NeoXInputs ==
    {[kind |-> "str", segments |-> <<s>>] :
        s \in {t \in NeoXSegments : ~t.batched}}
    \cup {[kind |-> "str_list", segments |-> <<s>>] :
             s \in {t \in NeoXSegments : t.batched}}
    \cup {[kind |-> "tensor", segments |-> <<s>>] : s \in NeoXSegments}
    \cup {[kind |-> "tensor_list", segments |-> segs] :
             segs \in UNION {[1..k -> {t \in NeoXSegments : Len(t.rows[1]) = 1}] :
                                k \in 0..2}}
    \cup {[kind |-> "other", segments |-> <<>>]}

\* convert_inputs_to_list_of_tensor_segments(x): a string, a list of strings
\* or a tensor is one segment; a non-empty list of tensors passes through;
\* anything else is an error.
ConvertInputsToListOfTensorSegments(x) ==
    IF x.kind \in {"str", "str_list", "tensor"}
    THEN [outcome |-> "returned", value |-> x.segments]
    ELSE IF x.kind = "tensor_list" /\ x.segments /= <<>>
    THEN [outcome |-> "returned", value |-> x.segments]
    ELSE [outcome |-> "ValueError", value |-> <<>>]

\* x[..., :n]
Take(row, n) == SubSeq(row, 1, Min(Len(row), n))

\* StartEndPacker.call on one row: the start value in front, a trim to
\* sequence_length - 1 and the end value behind, then the cut to
\* sequence_length that to_tensor(shape=...) makes.
StartEndPackerRow(tokenizer, row, n, add_start_value, add_end_value) ==
    LET started == IF add_start_value
                   THEN <<tokenizer.start_token_id>> \o row
                   ELSE row
        ended == IF add_end_value
                 THEN Take(started, n - 1) \o <<tokenizer.end_token_id>>
                 ELSE started
    IN  Take(ended, n)

\* StartEndPacker.call with return_padding_mask=True: (outputs, mask), both
\* padded to sequence_length.
StartEndPacker(tokenizer, t, n, add_start_value, add_end_value) ==
    LET packed == [r \in DOMAIN t.rows |->
                      StartEndPackerRow(tokenizer, t.rows[r], n,
                                        add_start_value, add_end_value)]
    IN  [token_ids |->
            Tensor(t.batched,
                   [r \in DOMAIN t.rows |->
                       [k \in 1..n |-> IF k <= Len(packed[r])
                                       THEN packed[r][k]
                                       ELSE tokenizer.pad_token_id]]),
         padding_mask |->
            Tensor(t.batched,
                   [r \in DOMAIN t.rows |->
                       [k \in 1..n |-> k <= Len(packed[r])]])]

\* pack_x_y_sample_weight(x, y, sample_weight): x alone when y is None,
\* (x, y) when sample_weight is None, else (x, y, sample_weight).
PackXYSampleWeight(x, y, sample_weight) ==
    IF y = PyNone THEN [x |-> x]
    ELSE IF sample_weight = PyNone THEN [x |-> x, y |-> y]
    ELSE [x |-> x, y |-> y, sample_weight |-> sample_weight]

\* sequence_length = sequence_length or self.sequence_length
SequenceLengthOr(sequence_length, configured) ==
    IF Truthy(sequence_length) THEN sequence_length.value ELSE configured

\* GPTNeoXPreprocessor.__init__(tokenizer, sequence_length=1024,
\* add_start_token=True, add_end_token=True): the assignments in their
\* order; the first one that raises ends the constructor.
GPTNeoXPreprocessorInit(tokenizer, sequence_length, add_start, add_end) ==
    LET set_tokenizer == SetAttr(EmptyDict, "tokenizer", tokenizer)
        set_length == SetAttr(set_tokenizer.value, "sequence_length",
                              sequence_length)
        set_start == SetAttr(set_length.value, "add_start_token", add_start)
        set_end == SetAttr(set_start.value, "add_end_token", add_end)
    IN  IF set_tokenizer.outcome /= "returned"
        THEN [outcome |-> set_tokenizer.outcome]
        ELSE IF set_length.outcome /= "returned"
        THEN [outcome |-> set_length.outcome]
        ELSE IF set_start.outcome /= "returned"
        THEN [outcome |-> set_start.outcome]
        ELSE set_end

\* The attributes call reads, on an instance whose four attributes hold the
\* constructor's arguments.
NeoXInstance(tokenizer, sequence_length, add_start, add_end) ==
    [tokenizer |-> tokenizer, sequence_length |-> sequence_length,
     add_start_token |-> add_start, add_end_token |-> add_end]

\* call(x, y=None, sample_weight=None, sequence_length=None) of the
\* preprocessor self, by the attributes self.tokenizer,
\* self.sequence_length, self.add_start_token and self.add_end_token.
GPTNeoXPreprocessorCall(self, x, y, sample_weight, sequence_length) ==
    LET converted == ConvertInputsToListOfTensorSegments(x)
    IN  IF converted.outcome /= "returned"
        THEN [outcome |-> converted.outcome]
        ELSE IF Len(converted.value) /= 1
        THEN [outcome |-> "ValueError"]
        ELSE [outcome |-> "returned",
              value |-> PackXYSampleWeight(
                  StartEndPacker(self.tokenizer, converted.value[1],
                                 SequenceLengthOr(sequence_length,
                                                  self.sequence_length),
                                 self.add_start_token, self.add_end_token),
                  y, sample_weight)]

\* Label data of any format: None or some value.
NeoXLabels == {PyNone, PyInt(7), PyList(<<1, 0>>)}

NeoXSequenceLengthArgs == {PyNone} \cup {PyInt(n) : n \in 0..MaxNeoXLength}

InitGPTNeoX ==
    /\ neox_tokenizer \in GPTNeoXTokenizers
    /\ neox_sequence_length \in 1..MaxNeoXLength
    /\ add_start_token \in BOOLEAN
    /\ add_end_token \in BOOLEAN
    /\ neox_x \in NeoXInputs
    /\ neox_y \in NeoXLabels
    /\ neox_sample_weight \in NeoXLabels
    /\ neox_call_sequence_length \in NeoXSequenceLengthArgs
    /\ neox_result = [outcome |-> "none"]
    /\ neox_pc = "start"

IdleGPTNeoX ==
    /\ neox_tokenizer = EmptyDict
    /\ neox_sequence_length = 0
    /\ add_start_token = FALSE
    /\ add_end_token = FALSE
    /\ neox_x = EmptyDict
    /\ neox_y = PyNone
    /\ neox_sample_weight = PyNone
    /\ neox_call_sequence_length = PyNone
    /\ neox_result = [outcome |-> "none"]
    /\ neox_pc = "idle"

\* GPTNeoXPreprocessor(tokenizer, sequence_length, add_start_token,
\* add_end_token)(x, y, sample_weight, sequence_length=...): the error of
\* the constructor when it raises, else what call gives on the instance.
GPTNeoXCall ==
    /\ neox_pc = "start"
    /\ LET built == GPTNeoXPreprocessorInit(neox_tokenizer,
                                            neox_sequence_length,
                                            add_start_token, add_end_token)
       IN  neox_result' =
             IF built.outcome /= "returned"
             THEN [outcome |-> built.outcome]
             ELSE GPTNeoXPreprocessorCall(
                      NeoXInstance(GetAttr(built.value, "tokenizer"),
                                   GetAttr(built.value, "sequence_length"),
                                   GetAttr(built.value, "add_start_token"),
                                   GetAttr(built.value, "add_end_token")),
                      neox_x, neox_y, neox_sample_weight,
                      neox_call_sequence_length)
    /\ neox_pc' = "done"
    /\ UNCHANGED <<neox_tokenizer, neox_sequence_length, add_start_token,
                   add_end_token, neox_x, neox_y, neox_sample_weight,
                   neox_call_sequence_length>>

(***************************************************************************)
(* BartSeq2SeqLMPreprocessor: __init__, get_config and from_config         *)
(***************************************************************************)
\* The tokenizer layer handed to the constructor.
BartTokenizer ==
    [object |-> "BartTokenizer", name |-> "bart_tokenizer",
     trainable |-> TRUE]

\* BartPreprocessor.__init__(tokenizer, encoder_sequence_length,
\* decoder_sequence_length): the tokenizer is kept and the two packers keep
\* the lengths.
BartPreprocessorInit(tokenizer, enc_len, dec_len) ==
    [_tokenizer |-> tokenizer,
     encoder_packer_sequence_length |-> enc_len,
     decoder_packer_sequence_length |-> dec_len]

\* Preprocessor.get_config(): the serialized tokenizer.
PreprocessorGetConfig(self) == [tokenizer |-> Serialize(self._tokenizer)]

\* BartPreprocessor.get_config(): super().get_config() and the packers'
\* lengths.
BartPreprocessorGetConfig(self) ==
    Merge(PreprocessorGetConfig(self),
          [encoder_sequence_length |-> self.encoder_packer_sequence_length,
           decoder_sequence_length |-> self.decoder_packer_sequence_length])

\* BartSeq2SeqLMPreprocessor.__init__: super().__init__ with
\* decoder_sequence_length + 1, then the private copies of what was passed.
Seq2SeqLMPreprocessorInit(tokenizer, enc_len, dec_len) ==
    LET super == BartPreprocessorInit(tokenizer, enc_len,
                                      SuperDecoderSequenceLength(dec_len))
    IN  [_tokenizer |-> super._tokenizer,
         encoder_packer_sequence_length |->
            super.encoder_packer_sequence_length,
         decoder_packer_sequence_length |->
            super.decoder_packer_sequence_length,
         private_encoder_sequence_length |-> enc_len,
         private_decoder_sequence_length |-> dec_len]

\* BartSeq2SeqLMPreprocessor.get_config(): super().get_config() updated with
\* the private copies.
Seq2SeqLMPreprocessorGetConfig_Super(self) == BartPreprocessorGetConfig(self)
Seq2SeqLMPreprocessorGetConfig(self) ==
    [BartPreprocessorGetConfig(self) EXCEPT
        !.encoder_sequence_length = self.private_encoder_sequence_length,
        !.decoder_sequence_length = self.private_decoder_sequence_length]

\* Preprocessor.from_config(config): the caller's dict after the call. A
\* "tokenizer" entry that is a dict is replaced in place by the deserialized
\* layer.
PreprocessorFromConfigInPlace(config) ==
    IF "tokenizer" \in DOMAIN config /\ IsDict(config.tokenizer)
    THEN Merge(config, [tokenizer |-> Deserialize(config.tokenizer)])
    ELSE config

\* Preprocessor.from_config(config): the returned instance, cls(**config)
\* of the dict so changed.
PreprocessorFromConfig(config) ==
    LET kw == PreprocessorFromConfigInPlace(config)
    IN  Seq2SeqLMPreprocessorInit(kw.tokenizer, kw.encoder_sequence_length,
                                  kw.decoder_sequence_length)

\* BartSeq2SeqLMPreprocessor.call(x) of an instance, as (x, y, sample_weight)
Seq2SeqLMPreprocessorCall(self, enc, dec) ==
    LET x == BartPreprocessorCall(enc, dec,
                                  self.encoder_packer_sequence_length,
                                  self.decoder_packer_sequence_length)
    IN  [x |-> [encoder_token_ids |-> x.encoder_token_ids,
                encoder_padding_mask |-> x.encoder_padding_mask,
                decoder_token_ids |-> DropLast(x.decoder_token_ids),
                decoder_padding_mask |-> DropLast(x.decoder_padding_mask)],
         y |-> DropFirst(x.decoder_token_ids),
         sample_weight |-> DropFirst(x.decoder_padding_mask)]

InitBartConfig ==
    /\ seq2seq_args \in
          [encoder_sequence_length : EncoderLens,
           decoder_sequence_length : 1..MaxDecoderLen]
    /\ seq2seq = Seq2SeqLMPreprocessorInit(
                     BartTokenizer,
                     seq2seq_args.encoder_sequence_length,
                     seq2seq_args.decoder_sequence_length)
    /\ seq2seq_text \in
          BartTexts(FALSE, 1, SeqsUpTo(DecoderWords, MaxTokens))
    /\ seq2seq_config = EmptyDict
    /\ seq2seq_round_trips = 0
    /\ seq2seq_output = EmptyDict

IdleBartConfig ==
    /\ seq2seq_args = EmptyDict
    /\ seq2seq = EmptyDict
    /\ seq2seq_text = <<>>
    /\ seq2seq_config = EmptyDict
    /\ seq2seq_round_trips = 0
    /\ seq2seq_output = EmptyDict

\* config = preprocessor.get_config()
Seq2SeqGetConfig ==
    /\ seq2seq_config' = Seq2SeqLMPreprocessorGetConfig(seq2seq)
    /\ UNCHANGED <<seq2seq_args, seq2seq, seq2seq_text, seq2seq_round_trips,
                   seq2seq_output>>

\* preprocessor = BartSeq2SeqLMPreprocessor.from_config(config): the rebuilt
\* instance takes the place of the one the config came from, and the dict
\* is changed in place; a call on a dict already changed deserializes
\* nothing.
Seq2SeqFromConfig ==
    /\ seq2seq_config /= EmptyDict
    /\ seq2seq_round_trips < MaxRoundTrips
    /\ seq2seq' = PreprocessorFromConfig(seq2seq_config)
    /\ seq2seq_config' = PreprocessorFromConfigInPlace(seq2seq_config)
    /\ seq2seq_round_trips' = seq2seq_round_trips + 1
    /\ seq2seq_output' = EmptyDict
    /\ UNCHANGED <<seq2seq_args, seq2seq_text>>

\* preprocessor({"encoder_text": ..., "decoder_text": ...})
Seq2SeqCall ==
    /\ seq2seq_output' =
          Seq2SeqLMPreprocessorCall(seq2seq, Tensor(FALSE, <<<<5>>>>),
                                    seq2seq_text)
    /\ UNCHANGED <<seq2seq_args, seq2seq, seq2seq_text, seq2seq_config,
                   seq2seq_round_trips>>

(***************************************************************************)
(* DisentangledSelfAttention._compute_attention: the attention scores      *)
(***************************************************************************)
\* A tensor of shape (positions, num_heads, attn_head_size), the batch axis
\* left out: t[p][c][d].  The outputs of the query and key layers are any
\* such tensors; these are the ones of the model, told apart by (a, b).
DenseOutput(positions, nh, head_size, a, b) ==
    [p \in 0..(positions - 1) |-> [c \in 0..(nh - 1) |->
        [d \in 0..(head_size - 1) |-> (a * p + b + c * (d + 1)) % 4]]]

DenseOutputs(positions, nh, head_size) ==
    {DenseOutput(positions, nh, head_size, 1, 0),
     DenseOutput(positions, nh, head_size, 3, 1)}

\* __init__ where it does not raise: the passed arguments,
\* attn_head_size = hidden_dim // num_heads and
\* scale_factor = 1.0 / sqrt(float(num_type_attn * attn_head_size)), kept as
\* the number under the root.
DisentangledSelfAttentionInit(nh, hd, maxpos, bs, rate) ==
    [num_heads |-> nh, hidden_dim |-> hd, max_position_embeddings |-> maxpos,
     bucket_size |-> bs, dropout |-> rate,
     attn_head_size |-> AttnHeadSize(hd, nh),
     scale_factor |-> [one_over_sqrt |-> NumTypeAttn * AttnHeadSize(hd, nh)]]

\* A score is a polynomial in scale_factor, by its coefficients: an
\* unscaled dot product v is <<v, 0, 0>>, v * scale_factor is <<0, v, 0>>.
Unscaled(v) == [k \in 0..2 |-> IF k = 0 THEN v ELSE 0]

RECURSIVE DotUpTo(_, _, _)
DotUpTo(u, v, d) ==
    IF d < 0 THEN 0 ELSE u[d] * v[d] + DotUpTo(u, v, d - 1)

Dot(u, v) == DotUpTo(u, v, Cardinality(DOMAIN u) - 1)

\* tf.einsum("abcd,afcd->acbf", x, y)[c][b][f] = sum_d x[b][c][d] * y[f][c][d]
Einsum(x, y) ==
    [c \in DOMAIN x[0] |-> [b \in DOMAIN x |-> [f \in DOMAIN y |->
        Unscaled(Dot(x[b][c], y[f][c]))]]]

\* tf.gather(scores, indices, batch_dims=3)[c][i][j] = scores[c][i][indices[i][j]]
GatherBatchDims3(scores, indices) ==
    [c \in DOMAIN scores |-> [i \in DOMAIN indices |->
        [j \in DOMAIN indices[i] |-> scores[c][i][indices[i][j]]]]]

\* tf.transpose(scores, [0, 1, 3, 2])
Transpose(scores) ==
    [c \in DOMAIN scores |-> [i \in DOMAIN scores[c] |->
        [j \in DOMAIN scores[c] |-> scores[c][j][i]]]]

\* tf.multiply(scores, self.scale_factor)
MultiplyByScaleFactor(scores) ==
    [c \in DOMAIN scores |-> [i \in DOMAIN scores[c] |->
        [j \in DOMAIN scores[c][i] |->
            [k \in 0..2 |-> IF k = 0 THEN 0 ELSE scores[c][i][j][k - 1]]]]]

\* a + b, elementwise
AddScores(a, b) ==
    [c \in DOMAIN a |-> [i \in DOMAIN a[c] |-> [j \in DOMAIN a[c][i] |->
        [k \in 0..2 |-> a[c][i][j][k] + b[c][i][j][k]]]]]

\* _compute_disentangled_attention(query, key, rel_embeddings), with
\* pos_query and pos_key the query and key layers' outputs on rel_embeddings
ComputeDisentangledAttention(self, q, k, pos_q, pos_k) ==
    LET num_positions == Cardinality(DOMAIN q)
        rp == GetRelPos(num_positions, self.bucket_size,
                        self.max_position_embeddings)
        rel_attn_span == self.bucket_size
        c2p_attn_scores ==
            MultiplyByScaleFactor(
                GatherBatchDims3(Einsum(q, pos_k), C2pPos(rp, rel_attn_span)))
        p2c_attn_scores ==
            MultiplyByScaleFactor(
                Transpose(
                    GatherBatchDims3(Einsum(k, pos_q),
                                     P2cPos(rp, rel_attn_span))))
    IN  AddScores(c2p_attn_scores, p2c_attn_scores)

\* _compute_attention up to the argument of _masked_softmax.  pos_q and
\* pos_k are the query and key layers' outputs on rel_embeddings after the
\* position dropout.
ComputeAttention(self, q, k, pos_q, pos_k) ==
    AddScores(MultiplyByScaleFactor(Einsum(k, q)),
              ComputeDisentangledAttention(self, q, k, pos_q, pos_k))

\* self._masked_softmax(attention_scores, attention_mask)
MaskedSoftmax(scores) == [op |-> "masked_softmax", of |-> scores]

\* The training argument: not passed (None, which a layer called alone
\* resolves to inference), False or True.
TrainingArgs == {"None", "False", "True"}

\* The dropout rates of the model: none, and the constructor's default.
DropoutRates == {"0.0", "0.1"}

\* A random draw of the dropout over a (heads, n, n) tensor, by the entries
\* it keeps: all, none, or every second one.
DropoutDraws(nh, n) ==
    {[c \in 0..(nh - 1) |-> [i \in 0..(n - 1) |-> [j \in 0..(n - 1) |->
        kind = "all" \/ (kind = "alternate" /\ (c + i + j) % 2 = 0)]]] :
        kind \in {"all", "none", "alternate"}}

\* The draw of a dropout that drops nothing.
KeepAll(nh, n) ==
    [c \in 0..(nh - 1) |-> [i \in 0..(n - 1) |-> [j \in 0..(n - 1) |-> TRUE]]]

\* Whether the dropout layer draws at all: in training, for a rate above 0.
DropoutActive(rate, train) == train = "True" /\ rate /= "0.0"

\* keras.layers.Dropout(rate)(x, training=training): x itself outside
\* training and for rate 0; in training every entry is either set to 0 or
\* multiplied by 1 / (1 - rate), as the draw keep says.
Dropout(rate, x, train, keep) ==
    IF DropoutActive(rate, train)
    THEN [op |-> "dropout", rate |-> rate, keep |-> keep, input |-> x]
    ELSE x

\* tf.einsum("acbe,aecd->abcd", attention_scores, value)
ValueEinsum(scores) ==
    [op |-> "einsum", equation |-> "acbe,aecd->abcd", x |-> scores,
     y |-> "value"]

ScoreHeads == {1, 2}
ScoreHiddenDims == {2, 4}

InitScores ==
    /\ \E cfg \in AttnConfigs, nh \in ScoreHeads, hd \in ScoreHiddenDims :
       \E rate \in DropoutRates :
          attention = DisentangledSelfAttentionInit(nh, hd, cfg[2], cfg[1],
                                                    rate)
    /\ \E n \in 1..MaxScorePositions :
          /\ attn_query \in DenseOutputs(n, attention.num_heads,
                                         attention.attn_head_size)
          /\ attn_key \in DenseOutputs(n, attention.num_heads,
                                       attention.attn_head_size)
          /\ attn_training \in TrainingArgs
          /\ dropout_keep \in
                IF DropoutActive(attention.dropout, attn_training)
                THEN DropoutDraws(attention.num_heads, n)
                ELSE {KeepAll(attention.num_heads, n)}
    /\ attn_pos_query \in DenseOutputs(2 * attention.bucket_size,
                                       attention.num_heads,
                                       attention.attn_head_size)
    /\ attn_pos_key \in DenseOutputs(2 * attention.bucket_size,
                                     attention.num_heads,
                                     attention.attn_head_size)
    /\ softmax_input = NoTensor
    /\ attention_scores = NoTensor
    /\ attn_output = NoTensor
    /\ scores_pc = "called"

IdleScores ==
    /\ attention = EmptyDict
    /\ attn_query = NoTensor
    /\ attn_key = NoTensor
    /\ attn_pos_query = NoTensor
    /\ attn_pos_key = NoTensor
    /\ attn_training = "None"
    /\ dropout_keep = NoTensor
    /\ softmax_input = NoTensor
    /\ attention_scores = NoTensor
    /\ attn_output = NoTensor
    /\ scores_pc = "idle"

\* _compute_attention(query, key, value, rel_embeddings, attention_mask,
\* training): the scores are summed and handed to the masked softmax, the
\* result goes through the attention dropout and is returned, together with
\* its einsum with value.
ComputeAttentionCall ==
    /\ scores_pc = "called"
    /\ softmax_input' = ComputeAttention(attention, attn_query, attn_key,
                                         attn_pos_query, attn_pos_key)
    /\ attention_scores' =
          Dropout(attention.dropout,
                  MaskedSoftmax(ComputeAttention(attention, attn_query,
                                                 attn_key, attn_pos_query,
                                                 attn_pos_key)),
                  attn_training, dropout_keep)
    /\ attn_output' = ValueEinsum(attention_scores')
    /\ scores_pc' = "done"
    /\ UNCHANGED <<attention, attn_query, attn_key, attn_pos_query,
                   attn_pos_key, attn_training, dropout_keep>>

(***************************************************************************)
(* Specifications                                                          *)
(***************************************************************************)
OtherAttnUnchanged == UNCHANGED <<ciouVars, samplerVars, bartVars,
                                  presetVars, taskVars, xlmVars, phi3Vars,
                                  sd3Vars, segmenterVars, headVars,
                                  neoxVars, bartConfigVars, scoresVars>>

NextAttn ==
    \/ ConstructAttention /\ OtherAttnUnchanged
    \/ Call /\ OtherAttnUnchanged

InitAttnSpec == InitAttn /\ IdleCIoU /\ IdleSampler /\ IdleBart /\
                IdlePreset /\ IdleTask /\ IdleXLMRoberta /\ IdlePhi3 /\
                IdleSD3 /\ IdleSegmenter /\ IdleHead /\ IdleGPTNeoX /\
                IdleBartConfig /\ IdleScores

SpecAttn == InitAttnSpec /\ [][NextAttn]_vars

OtherCIoUUnchanged == UNCHANGED <<attnVars, samplerVars, bartVars,
                                  presetVars, taskVars, xlmVars, phi3Vars,
                                  sd3Vars, segmenterVars, headVars,
                                  neoxVars, bartConfigVars, scoresVars>>

NextCIoU == CIoUCall /\ OtherCIoUUnchanged

InitCIoUSpec == IdleAttn /\ InitCIoU /\ IdleSampler /\ IdleBart /\
                IdlePreset /\ IdleTask /\ IdleXLMRoberta /\ IdlePhi3 /\
                IdleSD3 /\ IdleSegmenter /\ IdleHead /\ IdleGPTNeoX /\
                IdleBartConfig /\ IdleScores

SpecCIoU == InitCIoUSpec /\ [][NextCIoU]_vars

OtherSamplerUnchanged == UNCHANGED <<attnVars, ciouVars, bartVars,
                                     presetVars, taskVars, xlmVars,
                                     phi3Vars, sd3Vars, segmenterVars,
                                     headVars, neoxVars, bartConfigVars,
                                     scoresVars>>

NextSampler ==
    \/ OneStep /\ OtherSamplerUnchanged
    \/ OneStepRaises /\ OtherSamplerUnchanged
    \/ SampleReturn /\ OtherSamplerUnchanged

InitSamplerSpec == IdleAttn /\ IdleCIoU /\ InitSampler /\ IdleBart /\
                   IdlePreset /\ IdleTask /\ IdleXLMRoberta /\ IdlePhi3 /\
                   IdleSD3 /\ IdleSegmenter /\ IdleHead /\ IdleGPTNeoX /\
                   IdleBartConfig /\ IdleScores

SpecSampler == InitSamplerSpec /\ [][NextSampler]_vars

OtherBartUnchanged == UNCHANGED <<attnVars, ciouVars, samplerVars,
                                  presetVars, taskVars, xlmVars, phi3Vars,
                                  sd3Vars, segmenterVars, headVars,
                                  neoxVars, bartConfigVars, scoresVars>>

NextBart == BartCall /\ OtherBartUnchanged

InitBartSpec == IdleAttn /\ IdleCIoU /\ IdleSampler /\ InitBart /\
                IdlePreset /\ IdleTask /\ IdleXLMRoberta /\ IdlePhi3 /\
                IdleSD3 /\ IdleSegmenter /\ IdleHead /\ IdleGPTNeoX /\
                IdleBartConfig /\ IdleScores

SpecBart == InitBartSpec /\ [][NextBart]_vars

OtherPresetUnchanged == UNCHANGED <<attnVars, ciouVars, samplerVars,
                                    bartVars, taskVars, xlmVars, phi3Vars,
                                    sd3Vars, segmenterVars, headVars,
                                    neoxVars, bartConfigVars, scoresVars>>

NextPreset ==
    \/ PreprocessorFromPresetCall /\ OtherPresetUnchanged
    \/ TaskFromPresetCall /\ OtherPresetUnchanged

InitPresetSpec == IdleAttn /\ IdleCIoU /\ IdleSampler /\ IdleBart /\
                  InitPreset /\ IdleTask /\ IdleXLMRoberta /\ IdlePhi3 /\
                  IdleSD3 /\ IdleSegmenter /\ IdleHead /\ IdleGPTNeoX /\
                  IdleBartConfig /\ IdleScores

SpecPreset == InitPresetSpec /\ [][NextPreset]_vars

OtherTaskUnchanged == UNCHANGED <<attnVars, ciouVars, samplerVars, bartVars,
                                  presetVars, xlmVars, phi3Vars, sd3Vars,
                                  segmenterVars, headVars, neoxVars,
                                  bartConfigVars, scoresVars>>

NextTask ==
    \/ AssignPreprocessor /\ OtherTaskUnchanged
    \/ AssignBackbone /\ OtherTaskUnchanged
    \/ Predict /\ OtherTaskUnchanged
    \/ GetConfigCall /\ OtherTaskUnchanged
    \/ FromConfigCall /\ OtherTaskUnchanged

InitTaskSpec == IdleAttn /\ IdleCIoU /\ IdleSampler /\ IdleBart /\
                IdlePreset /\ InitTask /\ IdleXLMRoberta /\ IdlePhi3 /\
                IdleSD3 /\ IdleSegmenter /\ IdleHead /\ IdleGPTNeoX /\
                IdleBartConfig /\ IdleScores

SpecTask == InitTaskSpec /\ [][NextTask]_vars

OtherXLMRobertaUnchanged == UNCHANGED <<attnVars, ciouVars, samplerVars,
                                        bartVars, presetVars, taskVars,
                                        phi3Vars, sd3Vars, segmenterVars,
                                        headVars, neoxVars, bartConfigVars,
                                        scoresVars>>

NextXLMRoberta ==
    \/ HandleArguments /\ OtherXLMRobertaUnchanged
    \/ BuildModel /\ OtherXLMRobertaUnchanged
    \/ LoadWeightsAndReturn /\ OtherXLMRobertaUnchanged

InitXLMRobertaSpec == IdleAttn /\ IdleCIoU /\ IdleSampler /\ IdleBart /\
                      IdlePreset /\ IdleTask /\ InitXLMRoberta /\
                      IdlePhi3 /\ IdleSD3 /\ IdleSegmenter /\ IdleHead /\
                      IdleGPTNeoX /\ IdleBartConfig /\ IdleScores

SpecXLMRoberta == InitXLMRobertaSpec /\ [][NextXLMRoberta]_vars

OtherPhi3Unchanged == UNCHANGED <<attnVars, ciouVars, samplerVars, bartVars,
                                  presetVars, taskVars, xlmVars, sd3Vars,
                                  segmenterVars, headVars, neoxVars,
                                  bartConfigVars, scoresVars>>

NextPhi3 == Phi3Call /\ OtherPhi3Unchanged

InitPhi3Spec == IdleAttn /\ IdleCIoU /\ IdleSampler /\ IdleBart /\
                IdlePreset /\ IdleTask /\ IdleXLMRoberta /\ InitPhi3 /\
                IdleSD3 /\ IdleSegmenter /\ IdleHead /\ IdleGPTNeoX /\
                IdleBartConfig /\ IdleScores

SpecPhi3 == InitPhi3Spec /\ [][NextPhi3]_vars

OtherSD3Unchanged == UNCHANGED <<attnVars, ciouVars, samplerVars, bartVars,
                                 presetVars, taskVars, xlmVars, phi3Vars,
                                 segmenterVars, headVars, neoxVars,
                                 bartConfigVars, scoresVars>>

NextSD3 ==
    \/ PreprocessInputs /\ OtherSD3Unchanged
    \/ Encode /\ OtherSD3Unchanged
    \/ Denoise /\ OtherSD3Unchanged
    \/ Decode /\ OtherSD3Unchanged

InitSD3Spec == IdleAttn /\ IdleCIoU /\ IdleSampler /\ IdleBart /\
               IdlePreset /\ IdleTask /\ IdleXLMRoberta /\ IdlePhi3 /\
               InitSD3 /\ IdleSegmenter /\ IdleHead /\ IdleGPTNeoX /\
               IdleBartConfig /\ IdleScores

SpecSD3 == InitSD3Spec /\ [][NextSD3]_vars

OtherSegmenterUnchanged == UNCHANGED <<attnVars, ciouVars, samplerVars,
                                       bartVars, presetVars, taskVars,
                                       xlmVars, phi3Vars, sd3Vars, headVars,
                                       neoxVars, bartConfigVars, scoresVars>>

NextSegmenter == Compile /\ OtherSegmenterUnchanged

InitSegmenterSpec == IdleAttn /\ IdleCIoU /\ IdleSampler /\ IdleBart /\
                     IdlePreset /\ IdleTask /\ IdleXLMRoberta /\ IdlePhi3 /\
                     IdleSD3 /\ InitSegmenter /\ IdleHead /\ IdleGPTNeoX /\
                     IdleBartConfig /\ IdleScores

SpecSegmenter == InitSegmenterSpec /\ [][NextSegmenter]_vars

OtherHeadUnchanged == UNCHANGED <<attnVars, ciouVars, samplerVars, bartVars,
                                  presetVars, taskVars, xlmVars, phi3Vars,
                                  sd3Vars, segmenterVars, neoxVars,
                                  bartConfigVars, scoresVars>>

NextHead ==
    \/ HeadInit /\ OtherHeadUnchanged
    \/ HeadComputeOutputShape /\ OtherHeadUnchanged

InitHeadSpec == IdleAttn /\ IdleCIoU /\ IdleSampler /\ IdleBart /\
                IdlePreset /\ IdleTask /\ IdleXLMRoberta /\ IdlePhi3 /\
                IdleSD3 /\ IdleSegmenter /\ InitHead /\ IdleGPTNeoX /\
                IdleBartConfig /\ IdleScores

SpecHead == InitHeadSpec /\ [][NextHead]_vars

OtherGPTNeoXUnchanged == UNCHANGED <<attnVars, ciouVars, samplerVars,
                                     bartVars, presetVars, taskVars,
                                     xlmVars, phi3Vars, sd3Vars,
                                     segmenterVars, headVars,
                                     bartConfigVars, scoresVars>>

NextGPTNeoX == GPTNeoXCall /\ OtherGPTNeoXUnchanged

InitGPTNeoXSpec == IdleAttn /\ IdleCIoU /\ IdleSampler /\ IdleBart /\
                   IdlePreset /\ IdleTask /\ IdleXLMRoberta /\ IdlePhi3 /\
                   IdleSD3 /\ IdleSegmenter /\ IdleHead /\ InitGPTNeoX /\
                   IdleBartConfig /\ IdleScores

SpecGPTNeoX == InitGPTNeoXSpec /\ [][NextGPTNeoX]_vars

OtherBartConfigUnchanged == UNCHANGED <<attnVars, ciouVars, samplerVars,
                                        bartVars, presetVars, taskVars,
                                        xlmVars, phi3Vars, sd3Vars,
                                        segmenterVars, headVars, neoxVars,
                                        scoresVars>>

NextBartConfig ==
    \/ Seq2SeqGetConfig /\ OtherBartConfigUnchanged
    \/ Seq2SeqFromConfig /\ OtherBartConfigUnchanged
    \/ Seq2SeqCall /\ OtherBartConfigUnchanged

InitBartConfigSpec == IdleAttn /\ IdleCIoU /\ IdleSampler /\ IdleBart /\
                      IdlePreset /\ IdleTask /\ IdleXLMRoberta /\
                      IdlePhi3 /\ IdleSD3 /\ IdleSegmenter /\ IdleHead /\
                      IdleGPTNeoX /\ InitBartConfig /\ IdleScores

SpecBartConfig == InitBartConfigSpec /\ [][NextBartConfig]_vars

OtherScoresUnchanged == UNCHANGED <<attnVars, ciouVars, samplerVars,
                                    bartVars, presetVars, taskVars, xlmVars,
                                    phi3Vars, sd3Vars, segmenterVars,
                                    headVars, neoxVars, bartConfigVars>>

NextScores == ComputeAttentionCall /\ OtherScoresUnchanged

InitScoresSpec == IdleAttn /\ IdleCIoU /\ IdleSampler /\ IdleBart /\
                  IdlePreset /\ IdleTask /\ IdleXLMRoberta /\ IdlePhi3 /\
                  IdleSD3 /\ IdleSegmenter /\ IdleHead /\ IdleGPTNeoX /\
                  IdleBartConfig /\ InitScores

SpecScores == InitScoresSpec /\ [][NextScores]_vars

(***************************************************************************)
(* DisentangledSelfAttention: properties                                   *)
(***************************************************************************)
AttnCalled == attn_pc \in {"returned", "raised"}

\* Relative positions present in the rel_pos matrix of the current call.
RelPositions == (1 - hidden_states_shape[2])..(hidden_states_shape[2] - 1)

\* bucket(r), read from the matrix _get_rel_pos returned (first column for
\* r >= 0, first row for r < 0).
BucketOf(r) == IF r >= 0 THEN rel_pos[r][0] ELSE rel_pos[0][-r]

\* C1: every relative position r with |r| < bucket_size/2 is returned
\* unchanged by _make_log_bucket_position: bucket(r) = r.
C1_LinearIdentity ==
    AttnCalled =>
        \A i \in DOMAIN rel_pos : \A j \in DOMAIN rel_pos[i] :
            2 * Abs(i - j) < bucket_size => rel_pos[i][j] = i - j

C1_Witness ==
    /\ AttnCalled
    /\ bucket_size = 8
    /\ \E i \in DOMAIN rel_pos : \E j \in DOMAIN rel_pos[i] :
          i - j = -3 /\ rel_pos[i][j] = -3

\* The bucket id that the clipped content-to-position index stands for.
ClippedBucketId(i, j) == c2p_pos[i][j] - bucket_size

\* C2 (as stated): for every pair (i, j) the bucket id used after clipping
\* lies within [-bucket_size/2, bucket_size/2).
C2_ClippedWithinHalf ==
    AttnCalled =>
        \A i \in DOMAIN c2p_pos : \A j \in DOMAIN c2p_pos[i] :
            /\ -bucket_size <= 2 * ClippedBucketId(i, j)
            /\ 2 * ClippedBucketId(i, j) < bucket_size

\* C2 (amended): for every sequence length and every pair (i, j) the bucket
\* id used after clipping lies within [-bucket_size, bucket_size).
C2_ClippedWithinSpan ==
    AttnCalled =>
        \A i \in DOMAIN c2p_pos : \A j \in DOMAIN c2p_pos[i] :
            /\ -bucket_size <= ClippedBucketId(i, j)
            /\ ClippedBucketId(i, j) < bucket_size

C2_Witness ==
    /\ AttnCalled
    /\ \E i \in DOMAIN c2p_pos : \E j \in DOMAIN c2p_pos[i] :
          /\ i - j > max_position_embeddings - 1
          /\ rel_pos[i][j] >= bucket_size
          /\ ClippedBucketId(i, j) = bucket_size - 1

\* C3: bucketing is monotonic: r1 <= r2 with |r1|, |r2| <=
\* max_position_embeddings - 1 implies bucket(r1) <= bucket(r2), across the
\* boundary between the linear and the logarithmic region too.
C3_Monotonic ==
    AttnCalled =>
        \A r1 \in RelPositions : \A r2 \in RelPositions :
            ( /\ r1 <= r2
              /\ Abs(r1) <= max_position_embeddings - 1
              /\ Abs(r2) <= max_position_embeddings - 1 )
            => BucketOf(r1) <= BucketOf(r2)

C3_Witness ==
    /\ AttnCalled
    /\ bucket_size = 8
    /\ hidden_states_shape[2] > 6
    /\ BucketOf(3) = 3
    /\ BucketOf(4) = 4
    /\ BucketOf(5) = 5
    /\ BucketOf(6) = 5
    /\ BucketOf(-5) = -5

\* C4: bucketing is symmetric under sign negation: bucket(-r) = -bucket(r)
\* for every r, and bucket(0) = 0.
C4_Symmetric ==
    AttnCalled =>
        /\ MakeLogBucketPosition(0, bucket_size, max_position_embeddings) = 0
        /\ 0 \in RelPositions => BucketOf(0) = 0
        /\ \A r \in RelPositions : BucketOf(-r) = -BucketOf(r)

C4_Witness ==
    /\ AttnCalled
    /\ bucket_size = 4
    /\ max_position_embeddings = 5
    /\ hidden_states_shape[2] > 4
    /\ BucketOf(4) = 3
    /\ BucketOf(-4) = -3

\* C5 (as stated): every r with bucket_size/2 < |r| <=
\* max_position_embeddings - 1 is mapped to
\*   sign(r) * (ceil(ln(|r|/mid) * (mid-1) / ln((maxpos-1)/mid)) + mid),
\* so that sign(bucket(r)) = sign(r) and mid < |bucket(r)| <= bucket_size - 1.
C5_LogRange ==
    AttnCalled =>
        \A r \in RelPositions :
            ( /\ 2 * Abs(r) > bucket_size
              /\ Abs(r) <= max_position_embeddings - 1 )
            => /\ BucketOf(r) =
                    Sign(r) * (CeilLogRatio(Abs(r), Mid(bucket_size),
                                            max_position_embeddings)
                               + Mid(bucket_size))
               /\ Sign(BucketOf(r)) = Sign(r)
               /\ Mid(bucket_size) < Abs(BucketOf(r))
               /\ Abs(BucketOf(r)) <= bucket_size - 1

\* C6: both gather indices lie in [0, 2*bucket_size - 1] for every sequence
\* length and every pair (i, j); a position whose shifted bucket falls
\* outside is clipped to the boundary.
C6_GatherIndicesInRange ==
    AttnCalled =>
        \A i \in DOMAIN rel_pos : \A j \in DOMAIN rel_pos[i] :
            /\ c2p_pos[i][j] \in 0..(2 * bucket_size - 1)
            /\ p2c_pos[i][j] \in 0..(2 * bucket_size - 1)
            /\ rel_pos[i][j] + bucket_size > 2 * bucket_size - 1
                  => c2p_pos[i][j] = 2 * bucket_size - 1
            /\ -rel_pos[i][j] + bucket_size < 0 => p2c_pos[i][j] = 0
            /\ rel_pos[i][j] + bucket_size \in 0..(2 * bucket_size - 1)
                  => c2p_pos[i][j] = rel_pos[i][j] + bucket_size
            /\ -rel_pos[i][j] + bucket_size \in 0..(2 * bucket_size - 1)
                  => p2c_pos[i][j] = -rel_pos[i][j] + bucket_size

C6_Witness ==
    /\ AttnCalled
    /\ \E i \in DOMAIN rel_pos : \E j \in DOMAIN rel_pos[i] :
          /\ i - j > max_position_embeddings - 1
          /\ rel_pos[i][j] > bucket_size
          /\ c2p_pos[i][j] = 2 * bucket_size - 1
          /\ p2c_pos[i][j] = 0

\* The constructor has raised or the call has ended.
AttnDone == attn_pc \in {"init_raised", "returned", "raised"}

\* hidden_dim is a positive multiple of a positive num_heads.
HeadsDivideHiddenDim ==
    num_heads >= 1 /\ hidden_dim >= 1 /\ hidden_dim % num_heads = 0

\* C7 (as stated): for every (num_heads, hidden_dim) and every input of
\* shape (batch, seq, hidden_dim), call returns an output of that shape.
C7_OutputShapeAlways ==
    AttnDone =>
        /\ attn_pc = "returned"
        /\ attn_result.raised = "none"
        /\ attn_result.shape = hidden_states_shape

\* C7 (amended): for every (num_heads, hidden_dim) with hidden_dim a
\* positive multiple of num_heads >= 1 and every input of shape
\* (batch, seq, hidden_dim), call returns an output of shape
\* (batch, seq, hidden_dim).  For every other configuration: the constructor
\* raises ZeroDivisionError when num_heads = 0 or hidden_dim < num_heads;
\* otherwise the reshape to hidden_dim raises for every input that has an
\* element (batch >= 1 and seq >= 1), and an input without elements comes
\* back with its shape.
C7_OutputShapeWhenDivisible ==
    AttnDone =>
        IF HeadsDivideHiddenDim
        THEN /\ attn_pc = "returned"
             /\ attn_result.raised = "none"
             /\ attn_result.shape = hidden_states_shape
        ELSE IF num_heads = 0 \/ hidden_dim < num_heads
        THEN /\ attn_pc = "init_raised"
             /\ attn_result.raised = "ZeroDivisionError"
        ELSE IF hidden_states_shape[1] >= 1 /\ hidden_states_shape[2] >= 1
        THEN /\ attn_pc = "raised"
             /\ attn_result.raised = "InvalidArgumentError"
        ELSE /\ attn_pc = "returned"
             /\ attn_result.raised = "none"
             /\ attn_result.shape = hidden_states_shape

\* Three heads of size 2 on a batch of two sequences: the output has the
\* shape of the input.
C7_Witness ==
    /\ attn_pc = "returned"
    /\ num_heads = 3
    /\ hidden_dim = 6
    /\ hidden_states_shape[1] = 2
    /\ hidden_states_shape[2] >= 1
    /\ attn_result.shape = <<2, hidden_states_shape[2], 6>>

\* The other outcomes are reached: hidden_dim < num_heads ends in the
\* constructor, hidden_dim = 4 with three heads in the reshape, and the same
\* layer returns an empty batch.
C7_WitnessConstructorRaises ==
    /\ attn_pc = "init_raised"
    /\ hidden_dim = 2
    /\ num_heads = 3

C7_WitnessReshapeRaises ==
    /\ attn_pc = "raised"
    /\ hidden_dim = 4
    /\ num_heads = 3
    /\ attn_result.raised = "InvalidArgumentError"

C7_WitnessEmptyBatch ==
    /\ attn_pc = "returned"
    /\ hidden_dim = 4
    /\ num_heads = 3
    /\ hidden_states_shape[1] = 0
    /\ attn_result.shape = hidden_states_shape

(***************************************************************************)
(* CIoULoss: properties                                                    *)
(***************************************************************************)
\* The last dimension of a shape is 4.
LastDimIs4(shape) == HasDim(shape, 1) /\ DimFromEnd(shape, 1) = 4

\* shape[-2] of the two tensors, "none" for a tensor without that axis.
BoxesDim(shape) == IF HasDim(shape, 2) THEN DimFromEnd(shape, 2) ELSE "none"

\* C8: call raises ValueError when the last dimension of y_pred is not 4,
\* when the last dimension of y_true is not 4, or when y_true.shape[-2]
\* differs from y_pred.shape[-2], the first failing check in that order
\* deciding the error; in every other case it raises nothing and returns
\* 1 - compute_ciou(y_true, y_pred).
C8_ValidationOrder ==
    ciou_pc = "done" =>
        IF ~LastDimIs4(y_pred_shape)
        THEN /\ ciou_result.raised = "ValueError"
             /\ ciou_result.check = "y_pred.shape[-1]"
        ELSE IF ~LastDimIs4(y_true_shape)
        THEN /\ ciou_result.raised = "ValueError"
             /\ ciou_result.check = "y_true.shape[-1]"
        ELSE IF BoxesDim(y_true_shape) # BoxesDim(y_pred_shape)
        THEN /\ ciou_result.raised = "ValueError"
             /\ ciou_result.check = "shape[-2]"
        ELSE /\ ciou_result.raised = "none"
             /\ ciou_result.value = CiouScale - ciou

\* The same statement for tensors that have a boxes axis (rank >= 2).
C8_ValidationOrderRank2 ==
    (Len(y_true_shape) >= 2 /\ Len(y_pred_shape) >= 2) => C8_ValidationOrder

(***************************************************************************)
(* GreedySampler: properties                                               *)
(***************************************************************************)
\* The inputs of the token_probability_fn call made when length was p.
FnCallAt(p) == CHOOSE c \in {fn_calls[k] : k \in DOMAIN fn_calls} : c.length = p

\* tok is an argmax over the vocabulary of
\* token_probability_fn(current prompt, current mask)[b, p - 1]: no token
\* has a larger probability.
IsGreedyToken(b, p, tok) ==
    LET probs == TokenProbability(token_probability_fn, FnCallAt(p).prompt,
                                  FnCallAt(p).mask, batch_size, max_length)
    IN  \A v \in Vocab : probs[b][p - 1][v] <= probs[b][p - 1][tok]

\* C9: GreedySampler.sample always picks the token of the largest
\* probability as the next token: sample returns, and for every row b and
\* every position p in [max_length - num_steps, max_length) whose mask entry
\* is False on entry, the returned prompt holds at (b, p) an argmax of
\* token_probability_fn(current prompt, current mask)[b, p - 1].
C9_GreedyEveryPosition ==
    /\ sampler_pc /= "raised"
    /\ sampler_pc = "returned" =>
          \A b \in 0..(batch_size - 1) :
              \A p \in (max_length - num_steps)..(max_length - 1) :
                  ~entry_mask[b][p] =>
                      /\ p - 1 \in 0..(max_length - 1)
                      /\ IsGreedyToken(b, p, prompt[b][p])

\* What sample does on every input of the model: at every position p >= 1
\* of that range the returned prompt holds an argmax of the distribution at
\* p - 1, and a position whose mask entry is True on entry keeps its token.
GreedyFromSecondPosition ==
    sampler_pc = "returned" =>
        \A b \in 0..(batch_size - 1) :
            \A p \in (max_length - num_steps)..(max_length - 1) :
                /\ (p >= 1 /\ ~entry_mask[b][p]) =>
                      IsGreedyToken(b, p, prompt[b][p])
                /\ entry_mask[b][p] => prompt[b][p] = entry_prompt[b][p]

\* Two rows sampled for two steps or more: one generates the token 1 at a
\* position p >= 1, the other keeps the token it had there.
GreedyWitness ==
    /\ sampler_pc = "returned"
    /\ num_steps >= 2
    /\ batch_size = 2
    /\ \E p \in (max_length - num_steps)..(max_length - 1) :
          /\ p >= 1
          /\ ~entry_mask[0][p]
          /\ prompt[0][p] = 1
          /\ entry_mask[1][p]
          /\ prompt[1][p] = entry_prompt[1][p]

\* The first step of a run with num_steps = max_length, where the gather
\* does not raise: position 0 holds a token although no distribution at
\* position -1 exists.
GreedyWitnessFirstPosition ==
    /\ sampler_pc = "returned"
    /\ num_steps = max_length
    /\ gather_mode /= "cpu"
    /\ ~entry_mask[0][0]
    /\ Len(fn_calls) = max_length

\* The sampler under the scheduling tf.while_loop gives: the loop goes on
\* for as long as a step (an iteration or the exit) is possible.
SpecSamplerLive == SpecSampler /\ WF_vars(NextSampler)

\* Every step that starts an iteration (calls token_probability_fn) leaves
\* the loop variable length larger by exactly 1.
EachIterationAddsOne ==
    [][fn_calls' /= fn_calls => length' = length + 1]_vars

\* The loop starts at max_length - num_steps, and when sample has returned
\* the loop had stopped at length = max_length after exactly num_steps
\* iterations; without an iteration the prompt is the one passed.
StopsAfterNumSteps ==
    /\ (sampler_pc = "loop" /\ fn_calls = <<>>) =>
          length = max_length - num_steps
    /\ sampler_pc = "returned" =>
          /\ length = max_length
          /\ Len(fn_calls) = num_steps
          /\ \A k \in 1..num_steps :
                fn_calls[k].length = max_length - num_steps + k - 1
          /\ num_steps = 0 => prompt = entry_prompt

\* C22: GreedySampler.sample's loop terminates for every prompt of length
\* max_length and every num_steps in [0, max_length]: it starts at
\* length = max_length - num_steps, each iteration increases length by
\* exactly 1, and it stops when length = max_length, after exactly num_steps
\* iterations (none, returning the prompt unchanged, when num_steps = 0).
C22_LoopTerminatesAfterNumSteps ==
    /\ <>(sampler_pc = "returned")
    /\ []StopsAfterNumSteps
    /\ EachIterationAddsOne

\* What the loop does on every input of the model: it always ends; it ends
\* by an error exactly when num_steps = max_length and the gather kernel
\* raises on the index -1 of the first iteration, which then leaves length
\* at 0; in every other case it returns as StopsAfterNumSteps says.
SamplerLoopContract ==
    /\ <>(sampler_pc \in {"returned", "raised"})
    /\ []StopsAfterNumSteps
    /\ [](sampler_pc = "raised" <=>
             /\ num_steps = max_length
             /\ gather_mode = "cpu"
             /\ Len(fn_calls) = 1
             /\ length = 0)
    /\ [][fn_calls' /= fn_calls =>
             (length' = length + 1 \/ sampler_pc' = "raised")]_vars

\* A run of three iterations that returned.
SamplerLoopWitness ==
    /\ sampler_pc = "returned"
    /\ num_steps = 3
    /\ Len(fn_calls) = 3
    /\ length = max_length

(***************************************************************************)
(* BartSeq2SeqLMPreprocessor: properties                                   *)
(***************************************************************************)
\* C10: the labels are the decoder input shifted one step to the left: with
\* P the decoder row packed to decoder_sequence_length + 1 and M its padding
\* mask, decoder_token_ids[k] = P[k], decoder_padding_mask[k] = M[k],
\* y[k] = P[k+1] and sample_weight[k] = M[k+1] for each of the first
\* decoder_sequence_length positions k, hence y[k] = decoder_token_ids[k+1]
\* for every k but the last.  (Positions count from 1 here.)
C10_LabelsShiftedLeft ==
    bart_pc = "done" =>
        \A r \in DOMAIN decoder_text.rows :
            LET P == PackTokenIds(decoder_text.rows[r], decoder_sequence_length + 1)
                M == PackPaddingMask(decoder_text.rows[r], decoder_sequence_length + 1)
                ids == bart_x.decoder_token_ids.rows[r]
                pm == bart_x.decoder_padding_mask.rows[r]
                y == bart_y.rows[r]
                sw == bart_sample_weight.rows[r]
            IN  /\ \A k \in 1..decoder_sequence_length :
                      /\ k \in DOMAIN ids /\ ids[k] = P[k]
                      /\ k \in DOMAIN pm /\ pm[k] = M[k]
                      /\ k \in DOMAIN y /\ y[k] = P[k + 1]
                      /\ k \in DOMAIN sw /\ sw[k] = M[k + 1]
                /\ \A k \in 1..(decoder_sequence_length - 1) : y[k] = ids[k + 1]

C10_Witness ==
    /\ bart_pc = "done"
    /\ decoder_sequence_length = 4
    /\ decoder_text.batched
    /\ Len(decoder_text.rows) = 2
    /\ decoder_text.rows[1] = <<3, 4>>
    /\ bart_x.decoder_token_ids.rows[1] = <<0, 3, 4, 2>>
    /\ bart_y.rows[1] = <<3, 4, 2, 1>>
    /\ bart_sample_weight.rows[1] = <<TRUE, TRUE, TRUE, FALSE>>
    /\ decoder_text.rows[2] = <<4, 4, 3>>
    /\ bart_y.rows[2] = <<4, 4, 3, 2>>

\* Every row of tensor t has n entries.
RowsHaveLength(t, n) == \A r \in DOMAIN t.rows : Len(t.rows[r]) = n

\* Tensor t is batched exactly when the input text is, with as many rows.
SameBatching(t, text) ==
    t.batched = text.batched /\ DOMAIN t.rows = DOMAIN text.rows

\* C11: with encoder_sequence_length = E and decoder_sequence_length = D,
\* every call returns encoder_token_ids and encoder_padding_mask of length E
\* and decoder_token_ids, decoder_padding_mask, y and sample_weight of length
\* exactly D, with as many rows as the input has, for batched and unbatched
\* inputs alike.
C11_OutputLengths ==
    bart_pc = "done" =>
        /\ RowsHaveLength(bart_x.encoder_token_ids, encoder_sequence_length)
        /\ RowsHaveLength(bart_x.encoder_padding_mask, encoder_sequence_length)
        /\ RowsHaveLength(bart_x.decoder_token_ids, decoder_sequence_length)
        /\ RowsHaveLength(bart_x.decoder_padding_mask, decoder_sequence_length)
        /\ RowsHaveLength(bart_y, decoder_sequence_length)
        /\ RowsHaveLength(bart_sample_weight, decoder_sequence_length)
        /\ SameBatching(bart_x.encoder_token_ids, encoder_text)
        /\ SameBatching(bart_x.encoder_padding_mask, encoder_text)
        /\ SameBatching(bart_x.decoder_token_ids, decoder_text)
        /\ SameBatching(bart_x.decoder_padding_mask, decoder_text)
        /\ SameBatching(bart_y, decoder_text)
        /\ SameBatching(bart_sample_weight, decoder_text)

\* An unbatched call whose decoder text is longer than D: truncated to D.
C11_Witness ==
    /\ bart_pc = "done"
    /\ ~decoder_text.batched
    /\ encoder_sequence_length = 3
    /\ decoder_sequence_length = 2
    /\ decoder_text.rows[1] = <<3, 4, 3>>
    /\ bart_x.encoder_token_ids.rows[1] = <<0, 5, 2>>
    /\ bart_x.decoder_token_ids.rows[1] = <<0, 3>>
    /\ bart_y.rows[1] = <<3, 2>>
    /\ Len(bart_sample_weight.rows[1]) = 2

(***************************************************************************)
(* Task.from_preset and Preprocessor.from_preset: properties               *)
(***************************************************************************)
\* cls.presets of the class whose from_preset was called.
ClsPresets ==
    IF from_preset_method = "Task.from_preset"
    THEN task_presets
    ELSE preprocessor_presets

\* C12: Task.from_preset and Preprocessor.from_preset validate the preset
\* before constructing or downloading anything: a class without presets
\* raises NotImplementedError, a preset that is not one of cls.presets raises
\* ValueError, both with nothing constructed or downloaded; a construction
\* or download happens only for a preset contained in cls.presets.
C12_ValidatedBeforeConstruction ==
    from_preset_pc = "done" =>
        /\ DOMAIN ClsPresets = {} =>
              /\ from_preset_result.outcome = "NotImplementedError"
              /\ from_preset_log = <<>>
        /\ (DOMAIN ClsPresets /= {} /\ preset \notin DOMAIN ClsPresets) =>
              /\ from_preset_result.outcome = "ValueError"
              /\ from_preset_log = <<>>
        /\ from_preset_log /= <<>> => preset \in DOMAIN ClsPresets
        /\ from_preset_result.outcome = "returned" =>
              preset \in DOMAIN ClsPresets

\* The task class lacks the preset that its preprocessor class defines.
C12_Witness ==
    /\ from_preset_pc = "done"
    /\ from_preset_method = "Task.from_preset"
    /\ DOMAIN task_presets = {"preset_a"}
    /\ preset = "preset_b"
    /\ "preset_b" \in DOMAIN preprocessor_presets
    /\ "preprocessor" \notin DOMAIN kwargs
    /\ from_preset_result.outcome = "ValueError"
    /\ from_preset_log = <<>>

\* max_sequence_length of the preset: from the nested backbone config when
\* the preset config has a "backbone" entry, else from the config itself.
PresetMaxSequenceLength ==
    LET config == preprocessor_presets[preset]
    IN  IF "backbone" \in DOMAIN config
        THEN config.backbone.config.max_sequence_length
        ELSE config.max_sequence_length

\* C13: Preprocessor.from_preset resolves sequence_length against the
\* preset's max_sequence_length: not given, the preprocessor is built with
\* sequence_length = max_sequence_length; given and <= max_sequence_length,
\* it is used as given; given and > max_sequence_length, ValueError is raised
\* and no preprocessor is built.
C13_SequenceLengthResolved ==
    ( /\ from_preset_pc = "done"
      /\ from_preset_method = "Preprocessor.from_preset"
      /\ preset \in DOMAIN preprocessor_presets ) =>
        IF "sequence_length" \notin DOMAIN kwargs
        THEN /\ from_preset_result.outcome = "returned"
             /\ from_preset_result.value.sequence_length =
                   PresetMaxSequenceLength
        ELSE IF kwargs.sequence_length <= PresetMaxSequenceLength
        THEN /\ from_preset_result.outcome = "returned"
             /\ from_preset_result.value.sequence_length =
                   kwargs.sequence_length
        ELSE /\ from_preset_result.outcome = "ValueError"
             /\ from_preset_result.value = EmptyDict
             /\ \A k \in DOMAIN from_preset_log : from_preset_log[k] /= "cls"

\* A task preset (nested backbone config) with sequence_length equal to its
\* max_sequence_length: used as given.
C13_Witness ==
    /\ from_preset_pc = "done"
    /\ from_preset_method = "Preprocessor.from_preset"
    /\ preset = "preset_b"
    /\ preset \in DOMAIN preprocessor_presets
    /\ "backbone" \in DOMAIN preprocessor_presets[preset]
    /\ PresetMaxSequenceLength = 2
    /\ "sequence_length" \in DOMAIN kwargs
    /\ kwargs.sequence_length = 2
    /\ from_preset_result.outcome = "returned"
    /\ from_preset_result.value.sequence_length = 2
    /\ from_preset_log = <<"tokenizer_cls.from_preset", "cls">>

(***************************************************************************)
(* Task: properties                                                        *)
(***************************************************************************)
\* The constructor arguments a subclass adds to the config.
SubclassConfigKeys(cls) ==
    IF cls = "AlbertClassifier"
    THEN {"num_classes", "dropout"}
    ELSE {"num_classes", "hidden_dim", "dropout"}

\* C14: serialization of a Task is a round trip: get_config() returns
\* backbone, preprocessor, name and trainable plus the subclass's own
\* constructor arguments, and from_config(get_config()) yields an instance of
\* the same class whose get_config() equals the original's.
C14_ConfigRoundTrip ==
    /\ task_pc = "serialized" =>
          /\ DOMAIN task_config =
                {"backbone", "preprocessor", "name", "trainable"}
                \cup SubclassConfigKeys(task.object)
          /\ task_config = GetConfig(task)
    /\ task_pc = "restored" =>
          /\ task_config = FromConfigInPlace(GetConfig(task))
          /\ restored_task.object = task.object
          /\ GetConfig(restored_task) = GetConfig(task)

\* A named, non-trainable RobertaClassifier with a preprocessor and the
\* hidden_dim taken from the backbone it was built with, whose backbone was
\* then replaced, restored from its config; the config dict now holds the
\* deserialized layers.
C14_Witness ==
    /\ task_pc = "restored"
    /\ task.object = "RobertaClassifier"
    /\ task.name = "my_classifier"
    /\ ~task.trainable
    /\ task._preprocessor /= None
    /\ task._backbone.hidden_dim = 2
    /\ task_config.preprocessor.object = "RobertaPreprocessor"
    /\ task_config.backbone = restored_task._backbone
    /\ task_config.hidden_dim = 256
    /\ restored_task._preprocessor.sequence_length = 128
    /\ restored_task.name = "my_classifier"
    /\ restored_task = task

\* C15: in every state of a Task reached by construction with or without a
\* preprocessor and by any sequence of assignments to task.preprocessor,
\* include_preprocessing is True exactly when task.preprocessor is not None,
\* and a predict / fit / evaluate preprocesses its input exactly then.
C15_IncludePreprocessingIffPreprocessor ==
    /\ TaskLive =>
          (task.include_preprocessing <=> task._preprocessor /= None)
    /\ task_pc = "restored" =>
          (restored_task.include_preprocessing
              <=> restored_task._preprocessor /= None)
    /\ task_pc = "predicted" =>
          (preprocessing_applied <=> task._preprocessor /= None)

\* A classifier built with a preprocessor, whose preprocessor was then set
\* to None, predicts without preprocessing.
C15_Witness ==
    /\ task_pc = "predicted"
    /\ task.object = "AlbertClassifier"
    /\ task._preprocessor = None
    /\ ~task.include_preprocessing
    /\ ~preprocessing_applied
    /\ task_config /= None
    /\ task_config.preprocessor /= None

(***************************************************************************)
(* XLMRobertaBase / XLMRobertaLarge: properties                            *)
(***************************************************************************)
XLMHandled == xlm_pc \in {"handled", "raised", "built", "returned"}

\* C16: _handle_pretrained_model_arguments requires exactly one of
\* vocabulary_size and weights: ValueError when neither is specified and
\* when both are, for every value of vocabulary_size; ValueError when
\* weights is not a checkpoint compatible with the variant; for a compatible
\* checkpoint the returned vocabulary_size is the one recorded for the
\* checkpoint's vocabulary.
C16_ExactlyOneOfWeightsAndVocabularySize ==
    XLMHandled =>
        /\ (weights = PyNone /\ vocabulary_size = PyNone) =>
              xlm_handled.outcome = "ValueError"
        /\ (weights /= PyNone /\ vocabulary_size /= PyNone) =>
              xlm_handled.outcome = "ValueError"
        /\ ( /\ weights /= PyNone
             /\ weights.value \notin CompatibleCheckpoints(xlm_roberta_variant) )
           => xlm_handled.outcome = "ValueError"
        /\ ( /\ weights /= PyNone
             /\ vocabulary_size = PyNone
             /\ weights.value \in CompatibleCheckpoints(xlm_roberta_variant) )
           => /\ xlm_handled.outcome = "returned"
              /\ xlm_handled.value.vocabulary_size =
                    PyInt(Vocabularies[Checkpoints[weights.value].vocabulary]
                             .vocabulary_size)

(***************************************************************************)
(* Phi3Attention.call: properties                                          *)
(***************************************************************************)
\* The call returned the pair (attention_output, cache).
ReturnedPair ==
    /\ phi3_result.outcome = "returned"
    /\ "cache" \in DOMAIN phi3_result.value
    /\ "attention_output" \in DOMAIN phi3_result.value

\* The call returned attention_output alone.
ReturnedBare ==
    /\ phi3_result.outcome = "returned"
    /\ "cache" \notin DOMAIN phi3_result.value
    /\ phi3_result.value.type = "tensor"

\* C17: Phi3Attention.call raises ValueError exactly when cache is None and
\* cache_update_index is not None; in the three other combinations it
\* returns: the pair (attention_output, cache) exactly when a cache was
\* passed, and attention_output alone otherwise.
C17_CacheIndexValidation ==
    phi3_pc = "done" =>
        /\ phi3_result.outcome = "ValueError"
              <=> (cache = PyNone /\ cache_update_index /= PyNone)
        /\ phi3_result.outcome \in {"ValueError", "returned"}
        /\ ReturnedPair <=> cache /= PyNone
        /\ ReturnedBare <=> (cache = PyNone /\ cache_update_index = PyNone)

\* A cache of three positions updated at index 1 by two new positions.
C17_Witness ==
    /\ phi3_pc = "done"
    /\ hidden_states = 2
    /\ cache = CacheOf(3)
    /\ cache_update_index = PyInt(1)
    /\ ReturnedPair
    /\ phi3_result.value.cache.key =
          <<"cached", <<"projected", 1>>, <<"projected", 2>>>>
    /\ phi3_result.value.attention_output.query_len = 2

(***************************************************************************)
(* StableDiffusion3TextToImage: properties                                 *)
(***************************************************************************)
\* The positions of the calls of one kind in the order they were made.
CallsOf(op) == {k \in DOMAIN sd3_calls : sd3_calls[k].op = op}

\* C18: the stages of a generation run in a fixed order: the prompts are
\* encoded exactly once, before any denoising; then exactly num_steps
\* denoising steps run with indices 0, 1, ..., num_steps - 1 in this order,
\* each taking the latents the previous step returned (the first the initial
\* latents) and the embeddings of the one encoding; then the decoder runs
\* exactly once, on the latents of the last step, which for num_steps = 0 are
\* the initial latents unchanged.
C18_StagesInOrder ==
    /\ \A k \in DOMAIN sd3_calls :
          /\ (k = 1) <=> (sd3_calls[k].op = "encode")
          /\ sd3_calls[k].op = "denoise" =>
                /\ sd3_calls[k].step = k - 2
                /\ sd3_calls[k].step < sd3_num_steps
                /\ sd3_calls[k].input =
                      IF k = 2 THEN initial_latents
                      ELSE sd3_calls[k - 1].output
                /\ sd3_calls[k].output.steps[k - 1].embeddings =
                      sd3_calls[1].output
          /\ sd3_calls[k].op = "decode" =>
                /\ k = sd3_num_steps + 2
                /\ sd3_calls[k].input =
                      IF sd3_num_steps = 0 THEN initial_latents
                      ELSE sd3_calls[k - 1].output
    /\ sd3_pc = "done" =>
          /\ Len(sd3_calls) = sd3_num_steps + 2
          /\ Cardinality(CallsOf("encode")) = 1
          /\ Cardinality(CallsOf("denoise")) = sd3_num_steps
          /\ Cardinality(CallsOf("decode")) = 1
          /\ sd3_outputs =
                IF sd3_function = "text_to_image"
                THEN NormalizeOutputs(sd3_calls[Len(sd3_calls)].output,
                                      input_is_scalar)
                ELSE sd3_calls[Len(sd3_calls)].output

\* A finished run of three steps.
C18_Witness ==
    /\ sd3_pc = "done"
    /\ sd3_function = "text_to_image"
    /\ sd3_num_steps = 3
    /\ Len(sd3_calls) = 5
    /\ sd3_calls[4].op = "denoise"
    /\ sd3_calls[4].step = 2
    /\ sd3_calls[4].input = sd3_calls[3].output
    /\ sd3_calls[5].op = "decode"
    /\ Len(sd3_outputs.normalized.decoded.steps) = 3

\* A finished run of no step: the decoder received the initial latents.
C18_WitnessNoStep ==
    /\ sd3_pc = "done"
    /\ sd3_num_steps = 0
    /\ sd3_function = "generate_step"
    /\ sd3_outputs = DecodeStep(initial_latents)

(***************************************************************************)
(* ImageSegmenter.compile: properties                                      *)
(***************************************************************************)
\* The value is an instance of that Keras class.
IsInstance(v, class) == v.type = "object" /\ v.class = class

\* C19: compile with loss="auto" applies a
\* keras.losses.SparseCategoricalCrossentropy loss, with metrics="auto" a
\* keras.metrics.SparseCategoricalAccuracy metric, with optimizer="auto"
\* Adam(5e-5); any other value of optimizer, loss or metrics reaches
\* keras.Model.compile unchanged.
C19_AutoCompileDefaults ==
    compile_pc = "compiled" =>
        /\ IF optimizer = PyStr("auto")
           THEN compiled.optimizer =
                   PyObject("keras.optimizers.Adam",
                            [learning_rate |-> "5e-5"])
           ELSE compiled.optimizer = optimizer
        /\ IF loss = PyStr("auto")
           THEN IsInstance(compiled.loss,
                           "keras.losses.SparseCategoricalCrossentropy")
           ELSE compiled.loss = loss
        /\ IF metrics = PyStr("auto")
           THEN /\ compiled.metrics.type = "list"
                /\ Len(compiled.metrics.items) = 1
                /\ IsInstance(compiled.metrics.items[1],
                              "keras.metrics.SparseCategoricalAccuracy")
           ELSE compiled.metrics = metrics

(***************************************************************************)
(* MaskedLMHead: properties                                                *)
(***************************************************************************)
\* The constructor's validation: ValueError when both vocabulary_size and
\* embedding_weights are None, ValueError when both are given and
\* vocabulary_size differs from embedding_weights.shape[0]; otherwise the
\* layer is built, with vocabulary_size = embedding_weights.shape[0]
\* whenever embedding_weights is given.
ConstructorValidates ==
    head_pc \in {"raised", "constructed", "computed"} =>
        IF head_vocabulary_size = PyNone /\ embedding_weights = PyNone
        THEN head.outcome = "ValueError"
        ELSE IF /\ head_vocabulary_size /= PyNone
                /\ embedding_weights /= PyNone
                /\ head_vocabulary_size.value /= embedding_weights.shape[1]
        THEN head.outcome = "ValueError"
        ELSE /\ head.outcome = "returned"
             /\ embedding_weights /= PyNone =>
                   head.value.vocabulary_size =
                      PyInt(embedding_weights.shape[1])
             /\ embedding_weights = PyNone =>
                   head.value.vocabulary_size = head_vocabulary_size

\* C20: MaskedLMHead's constructor validates its vocabulary arguments (as
\* above), and compute_output_shape then returns masked_positions_shape with
\* its last dimension replaced by vocabulary_size, that is
\* (batch_size, masks_per_sequence, vocabulary_size).
C20_VocabularyValidatedAndOutputShape ==
    /\ ConstructorValidates
    /\ head_pc = "computed" =>
          /\ Len(output_shape) = Len(masked_positions_shape)
          /\ \A k \in 1..(Len(output_shape) - 1) :
                output_shape[k] = masked_positions_shape[k]
          /\ output_shape[Len(output_shape)] = head.value.vocabulary_size.value
          /\ output_shape = <<masked_positions_shape[1],
                              masked_positions_shape[2],
                              head.value.vocabulary_size.value>>

(***************************************************************************)
(* GPTNeoXPreprocessor: properties                                         *)
(***************************************************************************)
\* The input converts to exactly one segment.
NeoXOneSegment ==
    LET converted == ConvertInputsToListOfTensorSegments(neox_x)
    IN  converted.outcome = "returned" /\ Len(converted.value) = 1

\* x is a dict of exactly token_ids and padding_mask, each packed to n.
NeoXPackedTo(x, n) ==
    /\ DOMAIN x = {"token_ids", "padding_mask"}
    /\ RowsHaveLength(x.token_ids, n)
    /\ RowsHaveLength(x.padding_mask, n)
    /\ SameBatching(x.token_ids, neox_x.segments[1])
    /\ SameBatching(x.padding_mask, neox_x.segments[1])

\* Whatever of y and sample_weight the result holds is the argument itself.
NeoXLabelsUnaltered(result) ==
    /\ "y" \in DOMAIN result.value => result.value.y = neox_y
    /\ "sample_weight" \in DOMAIN result.value =>
          result.value.sample_weight = neox_sample_weight

\* C21: GPTNeoXPreprocessor.call raises ValueError whenever the input
\* converts to a number of segments other than 1; otherwise x comes back as a
\* dict with exactly the keys token_ids and padding_mask, packed to the
\* call-time sequence_length if one is passed (is not None) and to the
\* configured sequence_length otherwise, and whatever the call returns of y
\* and sample_weight is unaltered.
C21_CallTimeLengthWheneverPassed ==
    neox_pc = "done" =>
        IF ~NeoXOneSegment
        THEN neox_result.outcome = "ValueError"
        ELSE /\ neox_result.outcome = "returned"
             /\ NeoXPackedTo(neox_result.value.x,
                             IF neox_call_sequence_length /= PyNone
                             THEN neox_call_sequence_length.value
                             ELSE neox_sequence_length)
             /\ NeoXLabelsUnaltered(neox_result)

\* What the program does on every input of the model: the constructor
\* raises AttributeError at its first assignment, so no call is ever made.
NeoXConstructorRaises ==
    neox_pc = "done" => neox_result = [outcome |-> "AttributeError"]

\* The body of call, applied to an instance that holds the constructor's
\* arguments as its attributes.
NeoXCallOnInstance ==
    GPTNeoXPreprocessorCall(
        NeoXInstance(neox_tokenizer, neox_sequence_length, add_start_token,
                     add_end_token),
        neox_x, neox_y, neox_sample_weight, neox_call_sequence_length)

\* What the body of call does on such an instance: the packing is to the
\* call-time sequence_length when that is a non-zero number and to the
\* configured sequence_length when it is None or 0, and the result has the
\* shape pack_x_y_sample_weight gives: x alone when y is None, (x, y) when
\* sample_weight is None, (x, y, sample_weight) otherwise.
NeoXCallContract ==
    neox_pc \in {"start", "done"} =>
        IF ~NeoXOneSegment
        THEN NeoXCallOnInstance.outcome = "ValueError"
        ELSE /\ NeoXCallOnInstance.outcome = "returned"
             /\ NeoXPackedTo(NeoXCallOnInstance.value.x,
                             IF /\ neox_call_sequence_length /= PyNone
                                /\ neox_call_sequence_length.value /= 0
                             THEN neox_call_sequence_length.value
                             ELSE neox_sequence_length)
             /\ NeoXLabelsUnaltered(NeoXCallOnInstance)
             /\ DOMAIN NeoXCallOnInstance.value =
                   IF neox_y = PyNone THEN {"x"}
                   ELSE IF neox_sample_weight = PyNone THEN {"x", "y"}
                   ELSE {"x", "y", "sample_weight"}

\* A batch of single segments with labels and weights and a call-time length
\* that differs from the configured one: the constructor raised.
NeoXCallWitness ==
    /\ neox_pc = "done"
    /\ neox_result.outcome = "AttributeError"
    /\ neox_x.kind = "str_list"
    /\ neox_sequence_length = 3
    /\ neox_call_sequence_length = PyInt(2)
    /\ neox_y = PyInt(7)
    /\ neox_sample_weight = PyList(<<1, 0>>)

(***************************************************************************)
(* BartSeq2SeqLMPreprocessor config round trips: properties                *)
(***************************************************************************)
\* C23: get_config() reports encoder_sequence_length and
\* decoder_sequence_length exactly as first passed to the constructor, not
\* the incremented decoder_sequence_length + 1; so after any number of
\* rebuilds from get_config() the instance still packs with the same
\* lengths, its call returns decoder inputs and labels of the passed
\* decoder length, and its get_config() is the same dict. (The dict handed
\* to from_config is that get_config() until the call, and afterwards that
\* get_config() with the tokenizer entry deserialized.)
C23_ConfigKeepsPassedLengths ==
    /\ seq2seq_config /= EmptyDict =>
          /\ seq2seq_config.encoder_sequence_length =
                seq2seq_args.encoder_sequence_length
          /\ seq2seq_config.decoder_sequence_length =
                seq2seq_args.decoder_sequence_length
          /\ seq2seq_config =
                IF IsDict(seq2seq_config.tokenizer)
                THEN Seq2SeqLMPreprocessorGetConfig(seq2seq)
                ELSE PreprocessorFromConfigInPlace(
                         Seq2SeqLMPreprocessorGetConfig(seq2seq))
    /\ seq2seq /= EmptyDict =>
          /\ Seq2SeqLMPreprocessorGetConfig(seq2seq) =
                [tokenizer |-> Serialize(BartTokenizer),
                 encoder_sequence_length |->
                    seq2seq_args.encoder_sequence_length,
                 decoder_sequence_length |->
                    seq2seq_args.decoder_sequence_length]
          /\ seq2seq._tokenizer = BartTokenizer
          /\ seq2seq.encoder_packer_sequence_length =
                seq2seq_args.encoder_sequence_length
          /\ seq2seq.decoder_packer_sequence_length =
                seq2seq_args.decoder_sequence_length + 1
    /\ seq2seq_output /= EmptyDict =>
          /\ RowsHaveLength(seq2seq_output.x.decoder_token_ids,
                            seq2seq_args.decoder_sequence_length)
          /\ RowsHaveLength(seq2seq_output.y,
                            seq2seq_args.decoder_sequence_length)
          /\ RowsHaveLength(seq2seq_output.x.encoder_token_ids,
                            seq2seq_args.encoder_sequence_length)
          /\ seq2seq_output =
                Seq2SeqLMPreprocessorCall(
                    Seq2SeqLMPreprocessorInit(
                        BartTokenizer,
                        seq2seq_args.encoder_sequence_length,
                        seq2seq_args.decoder_sequence_length),
                    Tensor(FALSE, <<<<5>>>>), seq2seq_text)

\* An instance rebuilt three times from get_config(), called, and asked for
\* its config again.
C23_Witness ==
    /\ seq2seq_round_trips = 3
    /\ seq2seq_args.decoder_sequence_length = 4
    /\ seq2seq_config /= EmptyDict
    /\ seq2seq_config.decoder_sequence_length = 4
    /\ seq2seq_config.tokenizer = Serialize(BartTokenizer)
    /\ seq2seq_output /= EmptyDict
    /\ seq2seq_output.y.rows[1] = <<3, 4, 2, 1>>

(***************************************************************************)
(* DisentangledSelfAttention._compute_attention: properties                *)
(***************************************************************************)
\* The index into the position embeddings that belongs to relative
\* position r: bucket(r) + bucket_size, clipped; and the one gathered with
\* the negated bucket, -bucket(r) + bucket_size, clipped.
EmbeddingIndex(r) ==
    ClipByValue(MakeLogBucketPosition(r, attention.bucket_size,
                                      attention.max_position_embeddings)
                  + attention.bucket_size,
                0, 2 * attention.bucket_size - 1)

NegatedEmbeddingIndex(r) ==
    ClipByValue(-MakeLogBucketPosition(r, attention.bucket_size,
                                       attention.max_position_embeddings)
                  + attention.bucket_size,
                0, 2 * attention.bucket_size - 1)

\* scale_factor is 1 / sqrt(3 * attn_head_size), with
\* attn_head_size = hidden_dim // num_heads.
ScaleFactorIsOneOverSqrt3HeadSize ==
    /\ attention.attn_head_size = attention.hidden_dim \div attention.num_heads
    /\ attention.scale_factor.one_over_sqrt = 3 * attention.attn_head_size

\* The content-to-position and position-to-content scores of head c at
\* (query i, key j): query i against the key-side position embedding of
\* bucket(i - j), and key j against the query-side position embedding
\* gathered with the negated bucket(j - i).
C2pScore(c, i, j) ==
    Dot(attn_query[i][c], attn_pos_key[EmbeddingIndex(i - j)][c])

P2cScore(c, i, j) ==
    Dot(attn_key[j][c], attn_pos_query[NegatedEmbeddingIndex(j - i)][c])

\* v * scale_factor, once
ScaledOnce(v) == [k \in 0..2 |-> IF k = 1 THEN v ELSE 0]

\* The content-content scores with the query along the rows, [c][i][j] for
\* (query i, key j), and the ones the code's
\* einsum("abcd,afcd->acbf", key, query) yields: key i against query j.
ContentScores ==
    [c \in 0..(attention.num_heads - 1) |-> [i \in DOMAIN attn_query |->
        [j \in DOMAIN attn_key |-> Dot(attn_query[i][c], attn_key[j][c])]]]

ContentScoresKeyRows ==
    [c \in 0..(attention.num_heads - 1) |-> [i \in DOMAIN attn_key |->
        [j \in DOMAIN attn_query |-> Dot(attn_key[i][c], attn_query[j][c])]]]

\* The scores returned are the masked softmax of softmax_input, after the
\* attention dropout; and the tensor handed to the masked softmax is, at
\* every head c and every (i, j), the sum content[c][i][j] + c2p + p2c,
\* each times scale_factor once.
SoftmaxInputIs(content) ==
    /\ attention_scores =
          Dropout(attention.dropout, MaskedSoftmax(softmax_input),
                  attn_training, dropout_keep)
    /\ attn_output = ValueEinsum(attention_scores)
    /\ DOMAIN softmax_input = 0..(attention.num_heads - 1)
    /\ \A c \in DOMAIN softmax_input :
       \A i \in DOMAIN attn_query :
       \A j \in DOMAIN attn_key :
          softmax_input[c][i][j] =
              ScaledOnce(content[c][i][j] + C2pScore(c, i, j)
                           + P2cScore(c, i, j))

\* C24: the content-content, content-to-position and position-to-content
\* scores are each multiplied exactly once by 1/sqrt(3 * attn_head_size) and
\* summed before the masked softmax; at (query i, key j) the sum holds the
\* content score of query i and key j, the score of query i against the
\* position embedding of bucket(i - j), and (gathered with the negated
\* bucket index and transposed) the score of key j against the position
\* embedding of bucket(j - i).
C24_ThreeScoresScaledOnceAndSummed ==
    scores_pc = "done" =>
        /\ ScaleFactorIsOneOverSqrt3HeadSize
        /\ SoftmaxInputIs(ContentScores)

\* What the code computes on every input of the model: the same sum with
\* the content score of key i and query j at (i, j).
ScoresContract ==
    scores_pc = "done" =>
        /\ ScaleFactorIsOneOverSqrt3HeadSize
        /\ SoftmaxInputIs(ContentScoresKeyRows)

\* Four positions under buckets of size 4: relative position 3 is in the
\* logarithmic range, and the two position terms of (0, 3) differ.
ScoresWitness ==
    /\ scores_pc = "done"
    /\ Cardinality(DOMAIN attn_query) = 4
    /\ attention.bucket_size = 4
    /\ attention.num_heads = 2
    /\ EmbeddingIndex(3) = 7
    /\ NegatedEmbeddingIndex(3) = 1
    /\ C2pScore(0, 0, 3) /= P2cScore(0, 0, 3)
    /\ ContentScores[0][0][3] /= ContentScoresKeyRows[0][0][3]

\* A call in training with the default dropout whose draw drops every
\* second score, and one outside training that returns the softmax itself.
ScoresWitnessDropout ==
    /\ scores_pc = "done"
    /\ attn_training = "True"
    /\ attention.dropout = "0.1"
    /\ attention_scores.op = "dropout"
    /\ attention_scores.input = MaskedSoftmax(softmax_input)
    /\ 1 \in DOMAIN attention_scores.keep[0][0]
    /\ attention_scores.keep[0][0][0]
    /\ ~attention_scores.keep[0][0][1]

ScoresWitnessInference ==
    /\ scores_pc = "done"
    /\ attn_training = "None"
    /\ attention.dropout = "0.1"
    /\ attention_scores = MaskedSoftmax(softmax_input)

====
